---- MODULE Spec2Model ----
(***************************************************************************)
(* Model of the matching engine of vibeconnect                             *)
(* (backend/app/services/matching_service.py, class MatchingEngine).       *)
(*                                                                         *)
(* Numbers.  Python floats are modelled by exact fixed-point / rational    *)
(* arithmetic:                                                             *)
(*   - a dimension value v is the integer 1000*v (thousandths of a point); *)
(*     the sampled values are multiples of 0.125, which binary floats hold *)
(*     exactly;                                                            *)
(*   - a weight w is the integer 100*w;                                    *)
(*   - a rational is a pair <<numerator, denominator>>, denominator > 0;   *)
(*   - a value rounded to one decimal is the integer 10*value (tenths).    *)
(* round(x, 1) rounds the exact value to the nearest tenth, a tie to the   *)
(* even tenth.  A float result that lands on a decimal tie only up to its  *)
(* representation error may round either way; the sampled dimension values *)
(* are chosen so that no final score of a sampled call is such a tie, and  *)
(* on every sampled call the operators below return what the Python code   *)
(* returns.                                                                *)
(* A Python dict is a function whose DOMAIN is the set of keys present, a  *)
(* Python list is a sequence.  An argument or dict value that may be None  *)
(* is a sequence of length at most one: <<>> is None, <<x>> is the value   *)
(* x.  result.raised is "None" when the call returned.                     *)
(*                                                                         *)
(* The second part models the match endpoints of                           *)
(* backend/app/routers/matches.py over the matches and connections tables  *)
(* of backend/app/models.py.  The handlers are coroutines that never       *)
(* suspend between their first query and their last commit (the database   *)
(* calls are synchronous and mint_connection_nft awaits nothing), and      *)
(* main.py runs one event loop, so a request is served in one step.        *)
(***************************************************************************)
EXTENDS Integers, Sequences, FiniteSets, TLC

VARIABLES
    pc,           \* position of the call or of the server
    call,         \* the call being made, or the last request served
    result,       \* what the call returned, or the response to the last request
    match_table,       \* the matches table: match id -> row
    connection_table,  \* the connections table: sequence of rows, row i has id i
    clock,             \* the instant datetime.utcnow() returns
    frames,            \* the objects calls in progress hold: cell -> list, worker -> session
    user_table,        \* the users table: sequence of rows, row i has id i
    profile_table,     \* the user_profiles table: sequence of rows, row i has id i
    event_table,       \* the events table: sequence of rows, row i has id i
    checkin_table,     \* the event_check_ins table: sequence of rows, row i has id i
    session_store      \* the chat sessions SessionService keeps: session id -> data

\* the tables of the accounts and the chat sessions
account_vars == <<user_table, profile_table, session_store>>

\* the tables of the events
event_vars == <<event_table, checkin_table>>

vars == <<pc, call, result, match_table, connection_table, clock, frames,
          account_vars, event_vars>>

None == "None"

\* an optional value: None, or the value x
NoneValue == <<>>

Some(x) == <<x>>

\* ------------------------------------------------------------------ bounds

\* longest intentions list of a sampled profile
MaxIntentions == 2
\* minutes beyond the 60-minute cap that the largest sampled proximity has
MaxExtraMinutes == 30
\* number of users in the pool other_users is drawn from
MaxCandidates == 3
\* the sampled top_n range over -MaxTopN..MaxTopN
MaxTopN == 4
\* minutes after the first sampled instant at which the latest sampled instant lies
MaxEventMinutes == 30
\* number of threads that call the matching engine at the same time
MaxThreads == 2
\* number of rows of the matches table
MaxMatches == 1
\* latest instant the server clock reaches
MaxTime == 1

\* worker processes serving requests on one database
MaxWorkers == 2
\* number of rows of the users table
MaxUsers == 2
\* number of event ids requests name
MaxEvents == 1
\* number of rows the event_check_ins table can take
MaxCheckIns == 3
\* number of chat sessions started
MaxSessions == 2

\* ------------------------------------------------------- number helpers

\* thousandths per point of a dimension value
Unit == 10 * 100

Abs(x) == IF x < 0 THEN -x ELSE x

Min(x, y) == IF x <= y THEN x ELSE y

Max(x, y) == IF x >= y THEN x ELSE y

\* r1 <= r2 for rationals
RLe(r1, r2) == r1[1] * r2[2] <= r2[1] * r1[2]

\* ------------------------------------------------------ Python builtins

\* dict.get(key, default)
DictGet(d, key, default) == IF key \in DOMAIN d THEN d[key] ELSE default

\* d[key]: TRUE when the subscript raises KeyError
KeyError(d, key) == key \notin DOMAIN d

\* set(list)
ToSet(list) == {list[i] : i \in DOMAIN list}

\* round(num/den, 1), in tenths: nearest tenth, an exact tie goes to the even one
Round1(r) ==
    LET whole == r[1] \div r[2]
        q == 10 * whole + (10 * (r[1] % r[2])) \div r[2]
        rem == (10 * (r[1] % r[2])) % r[2]
    IN  IF 2 * rem > r[2] THEN q + 1
        ELSE IF 2 * rem < r[2] THEN q
        ELSE IF q % 2 = 0 THEN q ELSE q + 1

\* ------------------------------------------------------- MatchingEngine

\* iteration order of DIMENSION_WEIGHTS.items()
DimensionOrder == <<"goals", "intuition", "philosophy", "expectations", "leisure_time">>

\* DIMENSION_WEIGHTS, in hundredths
DIMENSION_WEIGHTS ==
    [goals |-> 25, intuition |-> 15, philosophy |-> 20, expectations |-> 25, leisure_time |-> 15]

Dimensions == DOMAIN DIMENSION_WEIGHTS

\* the default of .get(dimension, 50), in thousandths
DefaultDimension == 50 * Unit

\* mutant: the difference taken without abs()
SimilarityNoAbs(user_a_val, user_b_val) == 100 * Unit - (user_a_val - user_b_val)

\* mutant: the similarity floored at 0
SimilarityFloored(user_a_val, user_b_val) ==
    Max(0, 100 * Unit - Abs(user_a_val - user_b_val))

\* similarity = 100 - abs(user_a_val - user_b_val), in thousandths
Similarity(user_a_val, user_b_val) == 100 * Unit - Abs(user_a_val - user_b_val)

\* mutant: a missing dimension read as 0 instead of 50
DimensionSimilarityDefaultZero(dims_a, dims_b, dimension) ==
    Similarity(DictGet(dims_a, dimension, 0), DictGet(dims_b, dimension, 0))

\* the similarity of one dimension for two dimension dicts
DimensionSimilarity(dims_a, dims_b, dimension) ==
    Similarity(DictGet(dims_a, dimension, DefaultDimension),
               DictGet(dims_b, dimension, DefaultDimension))

\* total_weighted_score after the loop over DIMENSION_WEIGHTS, in 1/(Unit*100)
RECURSIVE WeightedSum(_, _, _)
WeightedSum(dims_a, dims_b, i) ==
    IF i = 0 THEN 0
    ELSE WeightedSum(dims_a, dims_b, i - 1)
         + DimensionSimilarity(dims_a, dims_b, DimensionOrder[i])
           * DIMENSION_WEIGHTS[DimensionOrder[i]]

\* mutant: an empty intention set counted as no overlap instead of the neutral 0.5
IntentionOverlapEmptyZero(intentions_a, intentions_b) ==
    IF intentions_a # {} /\ intentions_b # {}
    THEN <<Cardinality(intentions_a \cap intentions_b),
           Cardinality(intentions_a \cup intentions_b)>>
    ELSE <<0, 1>>

\* mutant: the Dice coefficient 2|A n B| / (|A| + |B|) in place of |A n B| / |A u B|
IntentionOverlapDice(intentions_a, intentions_b) ==
    IF intentions_a # {} /\ intentions_b # {}
    THEN <<2 * Cardinality(intentions_a \cap intentions_b),
           Cardinality(intentions_a) + Cardinality(intentions_b)>>
    ELSE <<1, 2>>

\* intention_overlap as a rational: Jaccard when both sets are non-empty, else 0.5
IntentionOverlap(intentions_a, intentions_b) ==
    IF intentions_a # {} /\ intentions_b # {}
    THEN <<Cardinality(intentions_a \cap intentions_b),
           Cardinality(intentions_a \cup intentions_b)>>
    ELSE <<1, 2>>

\* mutant: 0.8 + intention_overlap * 0.2
IntentionMultiplierHalfRange(overlap) == <<4 * overlap[2] + overlap[1], 5 * overlap[2]>>

\* intention_multiplier = 0.8 + intention_overlap * 0.4 = (4*den + 2*num) / (5*den)
IntentionMultiplier(overlap) == <<4 * overlap[2] + 2 * overlap[1], 5 * overlap[2]>>

\* mutant: the bonus without its cap of 20
ProximityBonusNoCap(proximity_minutes) == <<proximity_minutes, 3>>

\* proximity_bonus = min(20, proximity_minutes / 3), in thirds of a point
ProximityBonus(proximity_minutes) ==
    IF RLe(<<20, 1>>, <<proximity_minutes, 3>>) THEN <<60, 3>> ELSE <<proximity_minutes, 3>>

\* (base_score * intention_multiplier) + proximity_bonus
RawScore(total_weighted_score, multiplier, bonus) ==
    <<total_weighted_score * multiplier[1] * bonus[2]
        + bonus[1] * (Unit * 100) * multiplier[2],
      (Unit * 100) * multiplier[2] * bonus[2]>>

\* mutant: the score clamped from below only
ClampNoCeiling(score) == IF RLe(score, <<0, 1>>) THEN <<0, 1>> ELSE score

\* min(100, max(0, compatibility_score))
Clamp(score) ==
    LET low == IF RLe(score, <<0, 1>>) THEN <<0, 1>> ELSE score
    IN  IF RLe(<<100, 1>>, low) THEN <<100, 1>> ELSE low

\* round(min(100, max(0, base_score * intention_multiplier + proximity_bonus)), 1)
FinalScore(total_weighted_score, multiplier, proximity_minutes) ==
    Round1(Clamp(RawScore(total_weighted_score, multiplier,
                          ProximityBonus(proximity_minutes))))

\* calculate_compatibility: the returned tuple, or the exception raised
calculate_compatibility(user_a_profile, user_b_profile, proximity_minutes) ==
    IF KeyError(user_a_profile, "dimensions") \/ KeyError(user_b_profile, "dimensions")
    THEN [raised |-> "KeyError"]
    ELSE
    LET dims_a == user_a_profile["dimensions"]
        dims_b == user_b_profile["dimensions"]
        dimension_scores ==
            [d \in Dimensions |-> Round1(<<DimensionSimilarity(dims_a, dims_b, d), Unit>>)]
        total_weighted_score == WeightedSum(dims_a, dims_b, Len(DimensionOrder))
        intentions_a == ToSet(DictGet(user_a_profile, "intentions", <<>>))
        intentions_b == ToSet(DictGet(user_b_profile, "intentions", <<>>))
        intention_overlap == IntentionOverlap(intentions_a, intentions_b)
        compatibility_score ==
            FinalScore(total_weighted_score, IntentionMultiplier(intention_overlap),
                       proximity_minutes)
    IN  [raised |-> None,
         compatibility_score |-> compatibility_score,
         dimension_alignment |-> dimension_scores]

\* mutant: the slice one element short
SliceToShort(list, top_n) == SubSeq(list, 1, Min(top_n, Len(list)) - 1)

\* matches[:top_n]
SliceTo(list, top_n) ==
    IF top_n >= 0 THEN SubSeq(list, 1, Min(top_n, Len(list)))
    ELSE SubSeq(list, 1, Max(0, Len(list) + top_n))

\* mutant: a record placed in front of the records of equal score (ties reversed, as
\* sorting ascending and reversing the list would do)
InsertByScoreTiesFirst(sorted, match) ==
    LET before == {i \in 1..Len(sorted) :
                      sorted[i].compatibility_score > match.compatibility_score}
        k == Cardinality(before)
    IN  SubSeq(sorted, 1, k) \o <<match>> \o SubSeq(sorted, k + 1, Len(sorted))

\* mutant: the sort key compared the other way round (reverse=True forgotten)
InsertByScoreAscending(sorted, match) ==
    LET before == {i \in 1..Len(sorted) :
                      sorted[i].compatibility_score <= match.compatibility_score}
        k == Cardinality(before)
    IN  SubSeq(sorted, 1, k) \o <<match>> \o SubSeq(sorted, k + 1, Len(sorted))

\* one step of the stable descending sort: `sorted` is ordered by non-increasing score
\* and holds elements that precede match in the list; match goes behind every element
\* whose score is at least its own
InsertByScore(sorted, match) ==
    LET before == {i \in 1..Len(sorted) :
                      sorted[i].compatibility_score >= match.compatibility_score}
        k == Cardinality(before)
    IN  SubSeq(sorted, 1, k) \o <<match>> \o SubSeq(sorted, k + 1, Len(sorted))

\* matches.sort(key=lambda x: x['compatibility_score'], reverse=True)
RECURSIVE SortByScore(_)
SortByScore(matches) ==
    IF matches = <<>> THEN <<>>
    ELSE InsertByScore(SortByScore(SubSeq(matches, 1, Len(matches) - 1)),
                       matches[Len(matches)])

\* mutant: shared_intentions holding the union of the two intention sets
MatchRecordUnion(user_profile, other_user, proximity_minutes) ==
    LET scored == calculate_compatibility(user_profile, other_user, proximity_minutes)
    IN  [user_id |-> other_user["id"],
         username |-> DictGet(other_user, "username", "Anonymous"),
         wallet_address |-> other_user["wallet_address"],
         compatibility_score |-> scored.compatibility_score,
         dimension_alignment |-> scored.dimension_alignment,
         proximity_overlap_minutes |-> proximity_minutes,
         shared_intentions |->
             ToSet(DictGet(user_profile, "intentions", <<>>))
             \cup ToSet(DictGet(other_user, "intentions", <<>>))]

\* the dict appended to matches for one other_user
MatchRecord(user_profile, other_user, proximity_minutes) ==
    LET scored == calculate_compatibility(user_profile, other_user, proximity_minutes)
    IN  [user_id |-> other_user["id"],
         username |-> DictGet(other_user, "username", "Anonymous"),
         wallet_address |-> other_user["wallet_address"],
         compatibility_score |-> scored.compatibility_score,
         dimension_alignment |-> scored.dimension_alignment,
         proximity_overlap_minutes |-> proximity_minutes,
         shared_intentions |->
             ToSet(DictGet(user_profile, "intentions", <<>>))
             \cap ToSet(DictGet(other_user, "intentions", <<>>))]

\* find_matches_for_event: the returned list, or the exception raised
find_matches_for_event(user_profile, other_users, proximity_data, top_n) ==
    LET proximity == IF proximity_data = NoneValue THEN <<>> ELSE proximity_data[1]
        minutes(i) == DictGet(proximity, other_users[i]["id"], 0)
    IN  IF \E i \in 1..Len(other_users) :
              \/ KeyError(other_users[i], "id")
              \/ KeyError(other_users[i], "wallet_address")
              \/ calculate_compatibility(user_profile, other_users[i], minutes(i)).raised
                   # None
        THEN [raised |-> "KeyError"]
        ELSE LET matches == [i \in 1..Len(other_users) |->
                                MatchRecord(user_profile, other_users[i], minutes(i))]
             IN  [raised |-> None, matches |-> SliceTo(SortByScore(matches), top_n)]

\* floor of the square root of n >= 0, by bisection on lo <= sqrt(n) < hi
RECURSIVE ISqrtBetween(_, _, _)
ISqrtBetween(n, lo, hi) ==
    IF hi - lo <= 1 THEN lo
    ELSE LET mid == (lo + hi) \div 2
         IN  IF mid * mid <= n THEN ISqrtBetween(n, mid, hi) ELSE ISqrtBetween(n, lo, mid)

ISqrt(n) == ISqrtBetween(n, 0, 46340)

\* centimetres of great circle per coordinate unit (0.0001 degree):
\* R * pi / 180 * 0.0001 = 11.12 m for R = 6371000 m
CmPerUnit == 1112

\* _haversine_distance, in centimetres, for coordinates in units of 0.0001 degree.
\* The sampled points lie within 0.001 degree of latitude 0 and of each other, where
\* cos(phi1) * cos(phi2) = 1 and sin(x) = x up to 1e-9, so that
\* a = (dphi/2)^2 + (dlambda/2)^2 and R * c = R * sqrt(dphi^2 + dlambda^2).
HaversineDistance(lat1, lon1, lat2, lon2) ==
    ISqrt(CmPerUnit * CmPerUnit
            * ((lat2 - lat1) * (lat2 - lat1) + (lon2 - lon1) * (lon2 - lon1)))

\* truth value of an optional number: None and 0.0 are false
Truthy(optional) == optional # NoneValue /\ optional[1] # 0

\* all([latitude, longitude, latitude, longitude]) of the two check-ins
HasGpsData(checkin_a, checkin_b) ==
    /\ Truthy(DictGet(checkin_a, "latitude", NoneValue))
    /\ Truthy(DictGet(checkin_a, "longitude", NoneValue))
    /\ Truthy(DictGet(checkin_b, "latitude", NoneValue))
    /\ Truthy(DictGet(checkin_b, "longitude", NoneValue))

\* checkin.get('check_out_time') or datetime.utcnow(), for the clock reading `now`
EffectiveEnd(checkin, now) ==
    IF DictGet(checkin, "check_out_time", NoneValue) # NoneValue
    THEN checkin["check_out_time"][1] ELSE now

\* mutant: the early return for an empty overlap window left out
NoOverlapUnchecked(overlap_start, overlap_end) == FALSE

\* overlap_start >= overlap_end
NoOverlap(overlap_start, overlap_end) == overlap_start >= overlap_end

\* distance > max_distance_meters
TooFar(distance, max_distance_meters) == distance > max_distance_meters

\* mutant: the minutes rounded to the nearest integer instead of truncated
TimeOverlapRounded(overlap_start, overlap_end) ==
    (overlap_end - overlap_start + 30) \div 60

\* int((overlap_end - overlap_start).total_seconds() / 60), taken when
\* overlap_start < overlap_end
TimeOverlap(overlap_start, overlap_end) == (overlap_end - overlap_start) \div 60

\* calculate_proximity_overlap: times are seconds, distances centimetres, utcnow the
\* two successive readings of the clock; the returned int, or the exception raised
calculate_proximity_overlap(checkin_a, checkin_b, max_distance_meters, utcnow) ==
    IF KeyError(checkin_a, "check_in_time") \/ KeyError(checkin_b, "check_in_time")
    THEN [raised |-> "KeyError"]
    ELSE
    LET start_a == checkin_a["check_in_time"]
        end_a == EffectiveEnd(checkin_a, utcnow[1])
        start_b == checkin_b["check_in_time"]
        end_b == EffectiveEnd(checkin_b, utcnow[2])
        overlap_start == Max(start_a, start_b)
        overlap_end == Min(end_a, end_b)
        time_overlap == TimeOverlap(overlap_start, overlap_end)
    IN  IF NoOverlap(overlap_start, overlap_end) THEN [raised |-> None, minutes |-> 0]
        ELSE IF /\ HasGpsData(checkin_a, checkin_b)
                /\ TooFar(HaversineDistance(checkin_a["latitude"][1], checkin_a["longitude"][1],
                                            checkin_b["latitude"][1], checkin_b["longitude"][1]),
                          max_distance_meters)
        THEN [raised |-> None, minutes |-> 0]
        ELSE [raised |-> None, minutes |-> time_overlap]

\* ------------------------------------------------------ sampled inputs

\* dimension values in thousandths: -139.375 (out of range), 86.875, 100.0
DimValues == {-139375, 86875, 100000}

\* dimensions dicts: all five keys (goals and expectations hold v, the others w),
\* the goals key alone, and no key at all
DimMaps ==
    {[d \in Dimensions |-> IF d \in {"goals", "expectations"} THEN v ELSE w] :
        v \in DimValues, w \in DimValues}
    \cup {[d \in {"goals"} |-> v] : v \in DimValues}
    \cup {[d \in {} |-> 0]}

Tags == {"build_together", "make_friends"}

\* intentions lists, duplicates included
IntentionLists == UNION {[1..n -> Tags] : n \in 0..MaxIntentions}

\* the profiles of the example scenario of the specification
ExampleA ==
    [dimensions |-> [goals |-> 80000, intuition |-> 70000, philosophy |-> 90000,
                     expectations |-> 60000, leisure_time |-> 75000],
     intentions |-> <<"build_together", "networking">>]

ExampleB ==
    [dimensions |-> [goals |-> 85000, intuition |-> 65000, philosophy |-> 88000,
                     expectations |-> 65000, leisure_time |-> 80000],
     intentions |-> <<"build_together", "deep_conversation">>]

\* profile dicts: with or without the intentions key, one without the dimensions key
Profiles ==
    {[dimensions |-> m, intentions |-> l] : m \in DimMaps, l \in IntentionLists}
    \cup {[dimensions |-> m] : m \in DimMaps}
    \cup {[intentions |-> <<"make_friends">>]}
    \cup {ExampleA, ExampleB}

ProximitySamples == {0, 1, 45, 60, 60 + MaxExtraMinutes}

CompatCalls ==
    {[op |-> "calculate_compatibility", user_a_profile |-> a, user_b_profile |-> b,
      proximity_minutes |-> p] : a \in Profiles, b \in Profiles, p \in ProximitySamples}

NoResult == [raised |-> "NotReturned"]

\* the pool of other users: ids 1..MaxCandidates; users 1 and 3 hold the same profile
CandidateDims ==
    <<[d \in Dimensions |-> 100 * Unit],
      [d \in Dimensions |-> IF d \in {"goals", "expectations"} THEN 86875 ELSE 100 * Unit],
      [d \in Dimensions |-> 100 * Unit],
      [d \in {"goals"} |-> 86875]>>

CandidateIntentions ==
    <<<<"build_together">>, <<"make_friends", "build_together">>, <<"build_together">>, <<>>>>

Candidate(i) ==
    LET k == ((i - 1) % Len(CandidateDims)) + 1
        base == [id |-> i, wallet_address |-> <<"0x", i>>,
                 dimensions |-> CandidateDims[k], intentions |-> CandidateIntentions[k]]
    IN  IF i % 2 = 0 THEN base ELSE [x \in DOMAIN base \cup {"username"} |->
                                         IF x = "username" THEN <<"user", i>> ELSE base[x]]

CandidateIds == 1..MaxCandidates

\* lists of distinct users of the pool, in every order
CandidateLists ==
    {l \in UNION {[1..n -> CandidateIds] : n \in 0..MaxCandidates} :
        \A i, j \in DOMAIN l : i # j => l[i] # l[j]}

\* proximity_data: None, or a dict giving some users 15 minutes per unit of their id
ProximityMaps ==
    {NoneValue} \cup {Some([i \in S |-> 15 * i]) : S \in SUBSET CandidateIds}

Requesters ==
    {[dimensions |-> [d \in Dimensions |-> 100 * Unit],
      intentions |-> <<"build_together", "make_friends">>],
     [dimensions |-> [d \in {"goals"} |-> 86875]]}

RankCalls ==
    {[op |-> "find_matches_for_event", user_profile |-> u,
      other_users |-> [i \in DOMAIN l |-> Candidate(l[i])],
      proximity_data |-> m, top_n |-> n] :
        u \in Requesters, l \in CandidateLists, m \in ProximityMaps,
        n \in (-MaxTopN)..MaxTopN}

\* sampled instants, in seconds
TimePoints == {0, 59, 119, 60 * MaxEventMinutes}

\* the two readings of datetime.utcnow(), not before any sampled instant
ClockReadings ==
    {<<60 * MaxEventMinutes + 60, 60 * MaxEventMinutes + 60>>,
     <<60 * MaxEventMinutes + 60, 60 * MaxEventMinutes + 61>>}

\* sampled (latitude, longitude) pairs in units of 0.0001 degree: no GPS data,
\* (0.0003, 0.0004), (0.0, 0.0004) on the equator, and (0.0006, 0.0008)
GpsPoints ==
    {<<NoneValue, NoneValue>>, <<Some(3), Some(4)>>, <<Some(0), Some(4)>>,
     <<Some(6), Some(8)>>}

CheckIns ==
    {[check_in_time |-> t, check_out_time |-> out, latitude |-> g[1], longitude |-> g[2]] :
        t \in TimePoints, out \in {NoneValue} \cup {Some(x) : x \in TimePoints},
        g \in GpsPoints}

\* the default of max_distance_meters, 50.0, in centimetres
DefaultMaxDistance == 5000

\* max_distance_meters: the default, and the distance between two of the sampled points
MaxDistances == {DefaultMaxDistance, HaversineDistance(3, 4, 6, 8)}

ProximityCalls ==
    {[op |-> "calculate_proximity_overlap", checkin_a |-> a, checkin_b |-> b,
      max_distance_meters |-> m, utcnow |-> now] :
        a \in CheckIns, b \in CheckIns, m \in MaxDistances, now \in ClockReadings}

\* ------------------------------------- matches and connections tables

\* MatchStatus
PENDING == "pending"

ACCEPTED == "accepted"

REJECTED == "rejected"

EXPIRED == "expired"

MatchIds == 1..MaxMatches

\* the users table: match m pairs user m with user m + 1, and the last user takes part
\* in no match
UserIds == 1..(MaxMatches + 2)

\* User.wallet_address of a user
Wallet(user_id) == <<"0x", user_id>>

\* a wallet address no user holds
UnknownWallet == <<"0x", 0>>

Wallets == {Wallet(u) : u \in UserIds} \cup {UnknownWallet}

\* db.query(User).filter(User.wallet_address == wallet_address).first(), as the user's id
UserByWallet(wallet_address) ==
    IF \E u \in UserIds : Wallet(u) = wallet_address
    THEN Some(CHOOSE u \in UserIds : Wallet(u) = wallet_address)
    ELSE NoneValue

\* a row of the matches table as it is inserted: status PENDING, no response yet
NewMatch(m, expires_at) ==
    [id |-> m, event_id |-> 1, user_a_id |-> m, user_b_id |-> m + 1,
     compatibility_score |-> IF m % 2 = 1 THEN 90 ELSE 85,
     status |-> PENDING,
     user_a_accepted |-> NoneValue, user_b_accepted |-> NoneValue,
     expires_at |-> expires_at,
     user_a_responded_at |-> NoneValue, user_b_responded_at |-> NoneValue]

\* expires_at of a match: None, or the first instant
ExpiryTimes == {NoneValue, Some(0)}

\* the user is user_a or user_b of the match
IsParticipant(match, user_id) == match.user_a_id = user_id \/ match.user_b_id = user_id

\* mutant: the sweep without the status filter, expiring answered matches as well
ExpireMatchesAnyStatus(db_matches, user_id, utcnow) ==
    [m \in DOMAIN db_matches |->
        IF /\ db_matches[m].expires_at # NoneValue
           /\ db_matches[m].expires_at[1] < utcnow
           /\ IsParticipant(db_matches[m], user_id)
        THEN [db_matches[m] EXCEPT !.status = EXPIRED]
        ELSE db_matches[m]]

\* mutant: a match whose expires_at equals now is swept too
ExpireMatchesInclusive(db_matches, user_id, utcnow) ==
    [m \in DOMAIN db_matches |->
        IF /\ db_matches[m].status = PENDING
           /\ db_matches[m].expires_at # NoneValue
           /\ db_matches[m].expires_at[1] <= utcnow
           /\ IsParticipant(db_matches[m], user_id)
        THEN [db_matches[m] EXCEPT !.status = EXPIRED]
        ELSE db_matches[m]]

\* the expiry sweep of the listing endpoints: every PENDING match of the user whose
\* expires_at is set and before now becomes EXPIRED
ExpireMatches(db_matches, user_id, utcnow) ==
    [m \in DOMAIN db_matches |->
        IF /\ db_matches[m].status = PENDING
           /\ db_matches[m].expires_at # NoneValue
           /\ db_matches[m].expires_at[1] < utcnow
           /\ IsParticipant(db_matches[m], user_id)
        THEN [db_matches[m] EXCEPT !.status = EXPIRED]
        ELSE db_matches[m]]

\* the ids of the user's matches that hold one of the statuses
MatchesOf(db_matches, user_id, statuses) ==
    {m \in DOMAIN db_matches :
        IsParticipant(db_matches[m], user_id) /\ db_matches[m].status \in statuses}

\* HTTPException(status_code, detail): nothing is committed
HttpError(db_matches, db_connections, status_code, detail) ==
    [matches |-> db_matches, connections |-> db_connections,
     response |-> [status_code |-> status_code, detail |-> detail]]

\* GET /pending: the sweep, then the user's PENDING matches
get_pending_matches(db_matches, db_connections, wallet_address, utcnow) ==
    LET user == UserByWallet(wallet_address)
        swept == ExpireMatches(db_matches, user[1], utcnow)
    IN  IF user = NoneValue
        THEN HttpError(db_matches, db_connections, 404, "User not found")
        ELSE [matches |-> swept, connections |-> db_connections,
              response |-> [status_code |-> 200,
                            match_ids |-> MatchesOf(swept, user[1], {PENDING})]]

\* the values of the status query parameter
StatusFilters == {NoneValue, Some("pending"), Some("accepted"), Some("rejected"),
                  Some("expired"), Some("unknown")}

\* GET /: the sweep, then the user's matches under the status filter; event_id, sort,
\* limit and offset keep their defaults, under which every selected match is returned
get_matches(db_matches, db_connections, wallet_address, status, utcnow) ==
    LET user == UserByWallet(wallet_address)
        swept == ExpireMatches(db_matches, user[1], utcnow)
    IN  IF user = NoneValue
        THEN HttpError(db_matches, db_connections, 404, "User not found")
        ELSE IF status = Some("unknown")
        THEN HttpError(swept, db_connections, 400, "Invalid status")
        ELSE [matches |-> swept, connections |-> db_connections,
              response |-> [status_code |-> 200,
                            match_ids |->
                                MatchesOf(swept, user[1],
                                          IF status = NoneValue
                                          THEN {PENDING, ACCEPTED, REJECTED, EXPIRED}
                                          ELSE {status[1]})]]

\* mutant: the check reads the responded_at of the other participant
AlreadyRespondedOther(match, is_user_a, is_user_b) ==
    \/ is_user_a /\ match.user_b_responded_at # NoneValue
    \/ is_user_b /\ match.user_a_responded_at # NoneValue

\* mutant: the check for an earlier response dropped
AlreadyRespondedNever(match, is_user_a, is_user_b) == FALSE

\* the user has already responded to the match
AlreadyResponded(match, is_user_a, is_user_b) ==
    \/ is_user_a /\ match.user_a_responded_at # NoneValue
    \/ is_user_b /\ match.user_b_responded_at # NoneValue

\* the value of user_a_responded_at / user_b_responded_at once written: the handlers
\* read these columns for their presence only (a datetime is truthy), so the row keeps
\* the fact that an instant was written and not the instant
RespondedAt == Some("datetime")

\* the match with the user's answer and its time written
RecordResponse(match, is_user_a, accept) ==
    IF is_user_a
    THEN [match EXCEPT !.user_a_accepted = Some(accept),
                       !.user_a_responded_at = RespondedAt]
    ELSE [match EXCEPT !.user_b_accepted = Some(accept),
                       !.user_b_responded_at = RespondedAt]

\* mutant: one acceptance taken for two
BothAcceptedEither(match) ==
    match.user_a_accepted = Some(TRUE) \/ match.user_b_accepted = Some(TRUE)

\* match.user_a_accepted and match.user_b_accepted
BothAccepted(match) ==
    match.user_a_accepted = Some(TRUE) /\ match.user_b_accepted = Some(TRUE)

\* mutant: the Connection built with the two users exchanged
NewConnectionSwapped(match, connection_id) ==
    [id |-> connection_id, match_id |-> match.id,
     user_a_id |-> match.user_b_id, user_b_id |-> match.user_a_id,
     event_id |-> match.event_id,
     connection_nft_id |-> NoneValue, transaction_hash |-> NoneValue,
     ipfs_metadata_uri |-> NoneValue,
     pesobytes_earned |-> IF match.compatibility_score >= 90 THEN 15 ELSE 10]

\* the Connection built for a match; the id is given by the table
NewConnection(match, connection_id) ==
    [id |-> connection_id, match_id |-> match.id,
     user_a_id |-> match.user_a_id, user_b_id |-> match.user_b_id,
     event_id |-> match.event_id,
     connection_nft_id |-> NoneValue, transaction_hash |-> NoneValue,
     ipfs_metadata_uri |-> NoneValue,
     pesobytes_earned |-> IF match.compatibility_score >= 90 THEN 15 ELSE 10]

\* connections.match_id is unique: a second row for a match is refused
ViolatesUnique(db_connections, match_id) ==
    \E i \in 1..Len(db_connections) : db_connections[i].match_id = match_id

\* what mint_connection_nft returns when the transaction succeeds
NftReceipt(connection_id) ==
    [token_id |-> connection_id, transaction_hash |-> <<"0xtx", connection_id>>]

\* the connection after the minting attempt: the NFT fields are written when
\* mint_connection_nft returned a receipt
WithNft(connection, nft_result) ==
    IF nft_result # NoneValue
    THEN [connection EXCEPT !.connection_nft_id = Some(nft_result[1].token_id),
                            !.transaction_hash = Some(nft_result[1].transaction_hash),
                            !.ipfs_metadata_uri = Some(<<"ipfs://connection-", connection.id>>)]
    ELSE connection

\* what mint_connection_nft may return for a connection: a receipt, or None when the
\* contract is not configured or the transaction fails
MintResults(connection_id) == {Some(NftReceipt(connection_id)), NoneValue}

\* mutant: a user may respond again and connections.match_id is not unique
respond_to_match_repeatable(db_matches, db_connections, request) ==
    IF request.match_id \notin DOMAIN db_matches
    THEN {HttpError(db_matches, db_connections, 404, "Match not found")}
    ELSE IF UserByWallet(request.wallet_address) = NoneValue
    THEN {HttpError(db_matches, db_connections, 404, "User not found")}
    ELSE
    LET match == db_matches[request.match_id]
        user_id == UserByWallet(request.wallet_address)[1]
        is_user_a == match.user_a_id = user_id
        is_user_b == match.user_b_id = user_id
        answered == RecordResponse(match, is_user_a, request.accept)
        connection == NewConnection(answered, Len(db_connections) + 1)
    IN  IF ~is_user_a /\ ~is_user_b
        THEN {HttpError(db_matches, db_connections, 403, "User is not part of this match")}
        ELSE IF ~request.accept
        THEN {[matches |-> [db_matches EXCEPT ![match.id] =
                               [answered EXCEPT !.status = REJECTED]],
               connections |-> db_connections,
               response |-> [status_code |-> 200, status |-> "rejected"]]}
        ELSE IF BothAccepted(answered)
        THEN {[matches |-> [db_matches EXCEPT ![match.id] =
                               [answered EXCEPT !.status = ACCEPTED]],
               connections |-> Append(db_connections, WithNft(connection, nft_result)),
               response |-> [status_code |-> 200, status |-> "connected",
                             nft_minted |-> nft_result # NoneValue]] :
                 nft_result \in MintResults(connection.id)}
        ELSE {[matches |-> [db_matches EXCEPT ![match.id] = answered],
               connections |-> db_connections,
               response |-> [status_code |-> 200, status |-> "pending"]]}

\* POST /respond: the possible outcomes of a request, each the tables after it and the
\* response; a request that creates a Connection has one outcome per result of
\* mint_connection_nft, every other request has one outcome
respond_to_match(db_matches, db_connections, request) ==
    IF request.match_id \notin DOMAIN db_matches
    THEN {HttpError(db_matches, db_connections, 404, "Match not found")}
    ELSE IF UserByWallet(request.wallet_address) = NoneValue
    THEN {HttpError(db_matches, db_connections, 404, "User not found")}
    ELSE
    LET match == db_matches[request.match_id]
        user_id == UserByWallet(request.wallet_address)[1]
        is_user_a == match.user_a_id = user_id
        is_user_b == match.user_b_id = user_id
        answered == RecordResponse(match, is_user_a, request.accept)
        connection == NewConnection(answered, Len(db_connections) + 1)
    IN  IF ~is_user_a /\ ~is_user_b
        THEN {HttpError(db_matches, db_connections, 403, "User is not part of this match")}
        ELSE IF AlreadyResponded(match, is_user_a, is_user_b)
        THEN {HttpError(db_matches, db_connections, 400,
                        "You have already responded to this match")}
        ELSE IF ~request.accept
        THEN {[matches |-> [db_matches EXCEPT ![match.id] =
                               [answered EXCEPT !.status = REJECTED]],
               connections |-> db_connections,
               response |-> [status_code |-> 200, status |-> "rejected"]]}
        ELSE IF BothAccepted(answered)
        THEN IF ViolatesUnique(db_connections, match.id)
             THEN {HttpError(db_matches, db_connections, 500, "IntegrityError")}
             ELSE {[matches |-> [db_matches EXCEPT ![match.id] =
                                    [answered EXCEPT !.status = ACCEPTED]],
                    connections |-> Append(db_connections, WithNft(connection, nft_result)),
                    response |-> [status_code |-> 200, status |-> "connected",
                                  nft_minted |-> nft_result # NoneValue]] :
                      nft_result \in MintResults(connection.id)}
        ELSE {[matches |-> [db_matches EXCEPT ![match.id] = answered],
               connections |-> db_connections,
               response |-> [status_code |-> 200, status |-> "pending"]]}

\* ------------------ respond_to_match served by several worker processes
\*
\* Each worker process holds its own SQLAlchemy session on the shared database. A
\* handler first loads the match into its session and checks it, later it commits:
\* the commit writes the columns the handler assigned (the UPDATE carries the changed
\* attributes only) and inserts the Connection when the handler's own copy of the
\* match shows both acceptances.

Workers == 1..MaxWorkers

\* the requests the workers serve: the answer of a participant to a match
WorkerRequests ==
    UNION {{[match_id |-> m, wallet_address |-> Wallet(u), accept |-> a] :
               u \in {m, m + 1}, a \in BOOLEAN} : m \in MatchIds}

\* a session that has loaded nothing
NoSession == [match |-> NoneValue, connection_id |-> NoneValue]

\* the queries and checks at the head of respond_to_match: the response raised, or
\* None with the match as the session has loaded it
LoadMatch(db_matches, request) ==
    LET refuse(status_code, detail) ==
            [raised |-> Some([status_code |-> status_code, detail |-> detail]),
             match |-> NoneValue]
    IN  IF request.match_id \notin DOMAIN db_matches
        THEN refuse(404, "Match not found")
        ELSE IF UserByWallet(request.wallet_address) = NoneValue
        THEN refuse(404, "User not found")
        ELSE
        LET match == db_matches[request.match_id]
            user_id == UserByWallet(request.wallet_address)[1]
            is_user_a == match.user_a_id = user_id
            is_user_b == match.user_b_id = user_id
        IN  IF ~is_user_a /\ ~is_user_b
            THEN refuse(403, "User is not part of this match")
            ELSE IF AlreadyResponded(match, is_user_a, is_user_b)
            THEN refuse(400, "You have already responded to this match")
            ELSE [raised |-> NoneValue, match |-> Some(match)]

\* the UPDATE of a commit: the row of the database with the columns the handler
\* changed in its copy written over
WriteDirty(db_row, loaded, changed) ==
    [column \in DOMAIN db_row |->
        IF changed[column] # loaded[column] THEN changed[column] ELSE db_row[column]]

\* the assignments of respond_to_match on its copy of the match and its first commit:
\* the tables, the response (None while the handler goes on to the mint) and the id of
\* the Connection inserted
CommitResponse(db_matches, db_connections, loaded, request) ==
    LET match == loaded
        is_user_a == match.user_a_id = UserByWallet(request.wallet_address)[1]
        answered == RecordResponse(match, is_user_a, request.accept)
        connection == NewConnection(answered, Len(db_connections) + 1)
        written(status) ==
            [db_matches EXCEPT ![match.id] =
                WriteDirty(db_matches[match.id], loaded,
                           [answered EXCEPT !.status = status])]
    IN  IF ~request.accept
        THEN [matches |-> written(REJECTED), connections |-> db_connections,
              response |-> Some([status_code |-> 200, status |-> "rejected"]),
              connection_id |-> NoneValue]
        ELSE IF BothAccepted(answered)
        THEN IF ViolatesUnique(db_connections, match.id)
             THEN [matches |-> db_matches, connections |-> db_connections,
                   response |-> Some([status_code |-> 500, detail |-> "IntegrityError"]),
                   connection_id |-> NoneValue]
             ELSE [matches |-> written(ACCEPTED),
                   connections |-> Append(db_connections, connection),
                   response |-> NoneValue, connection_id |-> Some(connection.id)]
        ELSE [matches |-> written(match.status), connections |-> db_connections,
              response |-> Some([status_code |-> 200, status |-> "pending"]),
              connection_id |-> NoneValue]

\* the tables as the matching engine's calls leave them: untouched
\* ------------------------------ check-in and check-out (routers/events.py)

\* a row of the users table
NewUser(user_id) == [id |-> user_id, wallet_address |-> Wallet(user_id)]

\* the users table with MaxUsers registered users
RegisteredUsers == [i \in 1..MaxUsers |-> NewUser(i)]

\* the event ids requests name (Event.event_id, a string)
EventIds == {<<"event", n>> : n \in 1..MaxEvents}

\* the requests of check_in and check_out: a user id, registered or not, and an event
\* id; the sampled ids and coordinates pass validate_event_id and validate_coordinates
CheckInRequests == [user_id : 1..(MaxUsers + 1), event_id : EventIds]

\* query(...).first() on a table whose rows are numbered 1..Len: the id of the first
\* row that satisfies the filter, or None
First(rows) == IF rows = {} THEN NoneValue ELSE Some(CHOOSE i \in rows : \A j \in rows : i <= j)

\* db.query(User).filter(User.id == user_id).first()
UserById(db_users, user_id) == First({i \in 1..Len(db_users) : db_users[i].id = user_id})

\* db.query(Event).filter(Event.event_id == event_id).first()
EventByEventId(db_events, event_id) ==
    First({i \in 1..Len(db_events) : db_events[i].event_id = event_id})

\* the active check-in of the user at the event: the first row with no check_out_time
ActiveCheckIn(db_checkins, user_id, event_pk) ==
    First({i \in 1..Len(db_checkins) :
              /\ db_checkins[i].user_id = user_id
              /\ db_checkins[i].event_id = event_pk
              /\ db_checkins[i].check_out_time = NoneValue})

\* the Event row check_in creates
NewEvent(event_pk, event_id) == [id |-> event_pk, event_id |-> event_id]

\* the EventCheckIn row check_in creates
NewCheckIn(checkin_id, user_id, event_pk) ==
    [id |-> checkin_id, user_id |-> user_id, event_id |-> event_pk,
     check_out_time |-> NoneValue]

\* what a worker's handler holds between two statements: the event and the check-in
\* it has found
NoLocals == [event |-> NoneValue, check_in |-> NoneValue]

\* check_in handlers that have not inserted their record yet
CheckInsInFlight == {w \in Workers : pc[w] \in {"create_event", "find_active", "insert"}}

\* ------------------------------------ chat onboarding (routers/chat.py)

\* the keys of DIMENSIONS, in the order of the questions
DIMENSIONS == <<"goals", "intuition", "philosophy", "expectations", "leisure_time">>

\* a Python dict with the key set to the value
Put(dict, key, value) ==
    [k \in DOMAIN dict \cup {key} |-> IF k = key THEN value ELSE dict[k]]

\* a Python dict without the key
Pop(dict, key) == [k \in DOMAIN dict \ {key} |-> dict[k]]

\* the wallets that talk to the chat endpoints
ChatWallets == {Wallet(1), Wallet(2)}

\* f"{wallet_address}_{datetime.now().timestamp()}"
SessionId(wallet_address, timestamp) == <<wallet_address, timestamp>>

\* the session ids requests name: the ones start_chat_session can hand out
SessionIds == {SessionId(w, t) : w \in ChatWallets, t \in 0..(MaxSessions - 1)}

\* the messages users send, and message.strip()
Messages == {"hi", " hi "}

Strip(message) == IF message = " hi " THEN "hi" ELSE message

\* what analyze_onboarding_responses returns: the analysis of the model, or the
\* default analysis when the call to the model fails
AnalysisResults ==
    {[dimensions |-> [k \in {DIMENSIONS[i] : i \in 1..Len(DIMENSIONS)} |-> score],
      intentions |-> intentions, insights |-> insights] :
        <<score, intentions, insights>> \in
            {<<50, <<"just_be_present">>, "Profile needs more data for analysis">>,
             <<80, <<"make_friends">>, "insights">>}}

\* db.query(User).filter(User.wallet_address == wallet_address).first()
UserOfWallet(db_users, wallet_address) ==
    First({i \in 1..Len(db_users) : db_users[i].wallet_address = wallet_address})

\* user.profile: the row of user_profiles with the user's id
ProfileOfUser(db_profiles, user_id) ==
    First({i \in 1..Len(db_profiles) : db_profiles[i].user_id = user_id})

\* existing_user and existing_user.profile
HasProfile(db_users, db_profiles, wallet_address) ==
    LET existing_user == UserOfWallet(db_users, wallet_address)
    IN  existing_user # NoneValue /\ ProfileOfUser(db_profiles, existing_user[1]) # NoneValue

\* User(wallet_address=...) as the table stores it
CreatedUser(db_users, wallet_address) ==
    [id |-> Len(db_users) + 1, wallet_address |-> wallet_address]

\* UserProfile(user_id=..., goals=..., ...) built from an analysis, as the table stores
\* it; social_profiles and social_visibility take their column defaults
AnalysedProfile(db_profiles, user_id, ai_analysis) ==
    [id |-> Len(db_profiles) + 1, user_id |-> user_id,
     dimensions |-> ai_analysis.dimensions, intentions |-> ai_analysis.intentions,
     bio |-> ai_analysis.insights,
     social_profiles |-> <<>>, social_visibility |-> "connection_only"]

\* the outcome of a chat or onboarding handler: the tables, the sessions, the response
Outcome(db_users, db_profiles, sessions, response) ==
    [users |-> db_users, profiles |-> db_profiles, sessions |-> sessions,
     response |-> response]

\* an HTTPException raised before anything is written
Refused(db_users, db_profiles, sessions, status_code, detail) ==
    Outcome(db_users, db_profiles, sessions, [status_code |-> status_code, detail |-> detail])

\* POST /start
start_chat_session(db_users, db_profiles, sessions, wallet_address, timestamp) ==
    IF HasProfile(db_users, db_profiles, wallet_address)
    THEN Refused(db_users, db_profiles, sessions, 400,
                 "Profile already exists for this wallet")
    ELSE Outcome(db_users, db_profiles,
                 Put(sessions, SessionId(wallet_address, timestamp),
                     [wallet_address |-> wallet_address, current_dimension_index |-> 0,
                      responses |-> <<>>]),
                 [status_code |-> 200, session_id |-> SessionId(wallet_address, timestamp),
                  dimension_index |-> 0, is_complete |-> FALSE])

\* mutant: the index moves on after the last question too
AdvanceAlways(next_index) == TRUE

\* next_index < len(DIMENSIONS)
Advance(next_index) == next_index < Len(DIMENSIONS)

\* POST /message
send_chat_message(db_users, db_profiles, sessions, request) ==
    IF request.session_id \notin DOMAIN sessions
    THEN Refused(db_users, db_profiles, sessions, 404, "Chat session not found or expired")
    ELSE
    LET session == sessions[request.session_id]
        current_index == session.current_dimension_index
        next_index == current_index + 1
    IN  IF session.wallet_address # request.wallet_address
        THEN Refused(db_users, db_profiles, sessions, 403,
                     "Unauthorized access to chat session")
        ELSE IF current_index \notin (0 - Len(DIMENSIONS))..(Len(DIMENSIONS) - 1)
        THEN Refused(db_users, db_profiles, sessions, 500, "IndexError")
        ELSE
        LET key == DIMENSIONS[(current_index % Len(DIMENSIONS)) + 1]
            answered == [session EXCEPT
                            !.responses = Put(session.responses, key, Strip(request.message))]
        IN  IF Advance(next_index)
            THEN Outcome(db_users, db_profiles,
                         Put(sessions, request.session_id,
                             [answered EXCEPT !.current_dimension_index = next_index]),
                         [status_code |-> 200, session_id |-> request.session_id,
                          dimension_index |-> next_index, is_complete |-> FALSE])
            ELSE Outcome(db_users, db_profiles,
                         Put(sessions, request.session_id, answered),
                         [status_code |-> 200, session_id |-> request.session_id,
                          dimension_index |-> Len(DIMENSIONS), is_complete |-> TRUE])

\* not len(session["responses"]) < len(DIMENSIONS)
AllAnswered(session) == ~(Cardinality(DOMAIN session.responses) < Len(DIMENSIONS))

\* POST /complete
complete_chat_session(db_users, db_profiles, sessions, request, ai_analysis) ==
    IF request.session_id \notin DOMAIN sessions
    THEN Refused(db_users, db_profiles, sessions, 404, "Chat session not found or expired")
    ELSE
    LET session == sessions[request.session_id]
        existing_user == UserOfWallet(db_users, request.wallet_address)
        users == IF existing_user = NoneValue
                 THEN Append(db_users, CreatedUser(db_users, request.wallet_address))
                 ELSE db_users
        user_id == IF existing_user = NoneValue THEN Len(users) ELSE existing_user[1]
        profile == AnalysedProfile(db_profiles, user_id, ai_analysis)
    IN  IF session.wallet_address # request.wallet_address
        THEN Refused(db_users, db_profiles, sessions, 403,
                     "Unauthorized access to chat session")
        ELSE IF ~AllAnswered(session)
        THEN Refused(db_users, db_profiles, sessions, 400,
                     "Not all questions have been answered")
        ELSE IF existing_user # NoneValue /\ ProfileOfUser(db_profiles, user_id) # NoneValue
        THEN Refused(db_users, db_profiles, sessions, 400, "Profile already exists")
        ELSE Outcome(users, Append(db_profiles, profile),
                     Pop(sessions, request.session_id),
                     [status_code |-> 200, success |-> TRUE, profile_id |-> profile.id])

\* DELETE /session/{session_id}
delete_chat_session(db_users, db_profiles, sessions, session_id, wallet_address) ==
    IF session_id \notin DOMAIN sessions
    THEN Refused(db_users, db_profiles, sessions, 404, "Chat session not found")
    ELSE IF sessions[session_id].wallet_address # wallet_address
    THEN Refused(db_users, db_profiles, sessions, 403, "Unauthorized")
    ELSE Outcome(db_users, db_profiles, Pop(sessions, session_id),
                 [status_code |-> 200, success |-> TRUE])

\* --------------- onboarding (routers/profiles.py, routers/auth.py, routers/chat.py)

\* a wallet address as clients send it, in the mixed-case (checksum) spelling; Wallet(n)
\* is the same address in lower case
Checksummed(user_id) == <<"0x", user_id, "Aa">>

\* wallet_address.lower()
Lower(wallet_address) == <<wallet_address[1], wallet_address[2]>>

\* validate_wallet_address: the sampled addresses match the pattern, the result is the
\* address in lower case
validate_wallet_address(wallet_address) == Lower(wallet_address)

\* the wallet addresses of the onboarding requests: one account in both spellings
OnboardWallets == {Wallet(1), Checksummed(1)}

\* users.wallet_address is unique: a second row with the address is refused
WalletTaken(db_users, wallet_address) == UserOfWallet(db_users, wallet_address) # NoneValue

\* user_profiles.user_id is unique: a second profile of the user is refused
ProfileTaken(db_profiles, user_id) == ProfileOfUser(db_profiles, user_id) # NoneValue

\* UserProfile(user_id=user.id): every column takes its default
DefaultProfile(db_profiles, user_id) ==
    [id |-> Len(db_profiles) + 1, user_id |-> user_id,
     dimensions |-> [k \in {DIMENSIONS[i] : i \in 1..Len(DIMENSIONS)} |-> 50],
     intentions |-> <<>>, bio |-> NoneValue,
     social_profiles |-> <<>>, social_visibility |-> "connection_only"]

\* a chat session in which every question has been answered
AnsweredSession(wallet_address) ==
    [wallet_address |-> wallet_address, current_dimension_index |-> Len(DIMENSIONS) - 1,
     responses |-> [k \in {DIMENSIONS[i] : i \in 1..Len(DIMENSIONS)} |-> "hi"]]

\* what an onboarding handler holds between two statements: the address it stores,
\* the analysis, the user it found or created
NoOnboarding == [wallet_address |-> NoneValue, ai_analysis |-> NoneValue, user |-> NoneValue]

\* ------------- social profiles (routers/profiles.py, routers/matches.py)

\* the values of UserProfile.social_visibility update_social_profiles accepts
Visibilities == {"public", "connection_only"}

\* the social_profiles a user has saved
Handles(user_id) == [platform \in {"instagram"} |-> <<"@user", user_id>>]

\* the profile of a user who has saved social profiles under the visibility
SocialProfile(user_id, social_visibility) ==
    [DefaultProfile(<<>>, user_id) EXCEPT !.id = user_id,
                                          !.social_profiles = Handles(user_id),
                                          !.social_visibility = social_visibility]

\* the authenticated users of a request: get_optional_user gives None or a user
OptionalUsers == {NoneValue} \cup {Some(u) : u \in UserIds}

\* mutant: any Connection of the profile's owner unlocks, whoever the requester is
ConnectedToAnyone(db_connections, user_id, current_user_id) ==
    \E i \in 1..Len(db_connections) :
        db_connections[i].user_a_id = user_id \/ db_connections[i].user_b_id = user_id

\* the Connection query of get_social_profiles: a row between the two users exists
ConnectedTo(db_connections, user_id, current_user_id) ==
    \E i \in 1..Len(db_connections) :
        \/ /\ db_connections[i].user_a_id = user_id
           /\ db_connections[i].user_b_id = current_user_id
        \/ /\ db_connections[i].user_b_id = user_id
           /\ db_connections[i].user_a_id = current_user_id

\* GET /socials/{wallet_address}: the response
get_social_profiles(db_profiles, db_connections, wallet_address, current_user) ==
    LET user == UserByWallet(validate_wallet_address(wallet_address))
        profile == ProfileOfUser(db_profiles, user[1])
    IN  IF user = NoneValue \/ profile = NoneValue
        THEN [status_code |-> 404, detail |-> "Profile not found"]
        ELSE IF db_profiles[profile[1]].social_visibility = "public"
        THEN [status_code |-> 200,
              social_profiles |-> db_profiles[profile[1]].social_profiles,
              visibility |-> "public", unlocked |-> NoneValue]
        ELSE IF current_user = NoneValue
        THEN [status_code |-> 200, social_profiles |-> <<>>,
              visibility |-> "connection_only", unlocked |-> Some(FALSE)]
        ELSE IF ConnectedTo(db_connections, user[1], current_user[1])
        THEN [status_code |-> 200,
              social_profiles |-> db_profiles[profile[1]].social_profiles,
              visibility |-> "connection_only", unlocked |-> Some(TRUE)]
        ELSE [status_code |-> 200, social_profiles |-> <<>>,
              visibility |-> "connection_only", unlocked |-> Some(FALSE)]

\* GET /{match_id}/follow-all: the response
get_follow_all_links(db_matches, db_connections, db_profiles, match_id, requester_wallet) ==
    IF match_id \notin DOMAIN db_matches
    THEN [status_code |-> 404, detail |-> "Match not found"]
    ELSE IF UserByWallet(requester_wallet) = NoneValue
    THEN [status_code |-> 404, detail |-> "Requester not found"]
    ELSE
    LET match == db_matches[match_id]
        requester == UserByWallet(requester_wallet)[1]
        other_user == IF requester = match.user_a_id THEN match.user_b_id
                      ELSE match.user_a_id
        connection == First({i \in 1..Len(db_connections) :
                                db_connections[i].match_id = match_id})
        other_profile == ProfileOfUser(db_profiles, other_user)
        unlocked == /\ other_profile # NoneValue
                    /\ ~(match.status # ACCEPTED \/ connection = NoneValue)
                    /\ db_profiles[other_profile[1]].social_visibility
                          \in {"public", "connection_only"}
    IN  IF requester # match.user_a_id /\ requester # match.user_b_id
        THEN [status_code |-> 403, detail |-> "You are not part of this match"]
        ELSE [status_code |-> 200, connection_id |-> connection,
              other_user_wallet |-> Wallet(other_user),
              social_profiles |-> IF unlocked
                                  THEN db_profiles[other_profile[1]].social_profiles
                                  ELSE <<>>,
              can_access |-> unlocked]

AccountsIdle == user_table = <<>> /\ profile_table = <<>> /\ session_store = <<>>

EventsIdle == event_table = <<>> /\ checkin_table = <<>>

TablesIdle ==
    /\ match_table = <<>> /\ connection_table = <<>> /\ clock = 0
    /\ AccountsIdle /\ EventsIdle

\* no call in steps is in progress
NoFrames == frames = <<>>

\* ---------------------------------------- calls from several threads

Threads == 1..MaxThreads

\* mutant: one list, created once, that every call appends to
MatchesCellShared(thread) == 0

\* the list object `matches = []` creates: one per call, so one per calling thread
MatchesCell(thread) == thread

\* the argument objects the threads share: one requester, the whole pool as other_users
\* in ascending or descending order of id, a proximity map or None, a top_n, and a pair
\* of check-ins
SharedArguments ==
    {[user_profile |-> u,
      other_users |-> [i \in 1..MaxCandidates |->
                          Candidate(IF ascending THEN i ELSE MaxCandidates + 1 - i)],
      proximity_data |-> m, top_n |-> n,
      checkin_a |-> [check_in_time |-> 0, check_out_time |-> NoneValue,
                     latitude |-> NoneValue, longitude |-> NoneValue],
      checkin_b |-> [check_in_time |-> 59, check_out_time |-> Some(60 * MaxEventMinutes),
                     latitude |-> NoneValue, longitude |-> NoneValue],
      utcnow |-> <<60 * MaxEventMinutes + 60, 60 * MaxEventMinutes + 60>>] :
        u \in Requesters, ascending \in BOOLEAN,
        m \in {NoneValue, Some([i \in {1} |-> 45])}, n \in {1, MaxTopN}}

EngineFunctions ==
    {"calculate_compatibility", "find_matches_for_event", "calculate_proximity_overlap"}

\* ------------------------------------------- calculate_compatibility

InitCompat ==
    /\ pc = "start"
    /\ call \in CompatCalls
    /\ result = NoResult
    /\ TablesIdle
    /\ NoFrames

CalculateCompatibility ==
    /\ pc = "start"
    /\ call.op = "calculate_compatibility"
    /\ result' = calculate_compatibility(call.user_a_profile, call.user_b_profile,
                                         call.proximity_minutes)
    /\ pc' = "done"
    /\ UNCHANGED <<call, match_table, connection_table, clock, account_vars, event_vars, frames>>

NextCompat == CalculateCompatibility

SpecCompat == InitCompat /\ [][NextCompat]_vars

\* ------------------------------- properties of calculate_compatibility

\* calculate_compatibility has returned (or raised)
CompatDone == pc = "done" /\ call.op = "calculate_compatibility"

\* calculate_compatibility has returned a tuple
CompatReturned == CompatDone /\ result.raised = None

\* the profile holds a dimensions dict whose values all lie in [0, 100]
InRangeProfile(profile) ==
    /\ "dimensions" \in DOMAIN profile
    /\ \A d \in DOMAIN profile["dimensions"] :
          0 <= profile["dimensions"][d] /\ profile["dimensions"][d] <= 100 * Unit

\* the value calculate_compatibility is specified to read for a dimension
ValueOrNeutral(profile, d) ==
    IF d \in DOMAIN profile["dimensions"] THEN profile["dimensions"][d] ELSE 50 * Unit

\* C1: for profiles whose dimension values lie in [0,100] and proximity_minutes >= 0,
\* calculate_compatibility returns a compatibility_score with 0 <= score <= 100.
C1_ScoreBounds ==
    (CompatDone /\ InRangeProfile(call.user_a_profile) /\ InRangeProfile(call.user_b_profile)
        /\ call.proximity_minutes >= 0)
    => /\ result.raised = None
       /\ 0 <= result.compatibility_score
       /\ result.compatibility_score <= 1000

\* in-range profiles whose raw score 95.75 * 0.9333 + 15 exceeds 100 and is clamped
C1_Witness ==
    /\ CompatReturned
    /\ call.user_a_profile = ExampleA /\ call.user_b_profile = ExampleB
    /\ call.proximity_minutes = 45
    /\ result.compatibility_score = 1000

\* C2: calculate_compatibility(A, B, p) and calculate_compatibility(B, A, p) return the
\* same compatibility_score and the same dimension_alignment.
C2_Symmetry ==
    CompatReturned =>
        LET swapped == calculate_compatibility(call.user_b_profile, call.user_a_profile,
                                               call.proximity_minutes)
        IN  /\ swapped.raised = None
            /\ swapped.compatibility_score = result.compatibility_score
            /\ swapped.dimension_alignment = result.dimension_alignment

\* two profiles that differ in a dimension and in their intentions, below the ceiling
C2_Witness ==
    /\ CompatReturned
    /\ call.user_a_profile # call.user_b_profile
    /\ \E d \in Dimensions : result.dimension_alignment[d] < 1000
    /\ "intentions" \in DOMAIN call.user_a_profile
    /\ "intentions" \notin DOMAIN call.user_b_profile
    /\ result.compatibility_score > 0 /\ result.compatibility_score < 1000

\* C6: with both profiles fixed, compatibility_score is non-decreasing in
\* proximity_minutes over 0..60, and for proximity_minutes >= 60 it equals the score
\* at 60 minutes.
C6_ProximityMonotone ==
    CompatReturned =>
        LET a == call.user_a_profile
            b == call.user_b_profile
            total == WeightedSum(a["dimensions"], b["dimensions"], Len(DimensionOrder))
            multiplier ==
                IntentionMultiplier(IntentionOverlap(ToSet(DictGet(a, "intentions", <<>>)),
                                                     ToSet(DictGet(b, "intentions", <<>>))))
            at60 == calculate_compatibility(a, b, 60).compatibility_score
        IN  /\ call.proximity_minutes = 60 =>
                  /\ result.compatibility_score = FinalScore(total, multiplier, 60)
                  /\ \A q \in 0..59 :
                        FinalScore(total, multiplier, q) <= FinalScore(total, multiplier, q + 1)
            /\ call.proximity_minutes < 60 => result.compatibility_score <= at60
            /\ call.proximity_minutes >= 60 => result.compatibility_score = at60

\* more than 60 minutes together, with a score below the ceiling
C6_Witness ==
    /\ CompatReturned
    /\ call.proximity_minutes > 60
    /\ result.compatibility_score > 200 /\ result.compatibility_score < 1000

\* the profile with every absent dimension set to 50.0 and absent intentions to []
WithDefaults(profile) ==
    [dimensions |-> [d \in Dimensions |-> ValueOrNeutral(profile, d)],
     intentions |-> IF "intentions" \in DOMAIN profile THEN profile["intentions"] ELSE <<>>]

\* C9: calculate_compatibility does not fail when a profile lacks some or all dimension
\* keys or the intentions key: it returns what it returns for the profile with 50.0 in
\* place of every absent dimension and the empty list in place of absent intentions.
C9_MissingKeysDefaulted ==
    (CompatDone /\ "dimensions" \in DOMAIN call.user_a_profile
        /\ "dimensions" \in DOMAIN call.user_b_profile)
    => /\ result.raised = None
       /\ result = calculate_compatibility(WithDefaults(call.user_a_profile),
                                           WithDefaults(call.user_b_profile),
                                           call.proximity_minutes)

\* one profile has no dimension key and no intentions key, the other lacks four keys
C9_Witness ==
    /\ CompatReturned
    /\ DOMAIN call.user_a_profile = {"dimensions"}
    /\ DOMAIN call.user_a_profile["dimensions"] = {}
    /\ DOMAIN call.user_b_profile["dimensions"] = {"goals"}
    /\ call.user_b_profile["dimensions"]["goals"] = 86875
    /\ result.dimension_alignment["goals"] = 631

\* t (tenths) is similarity (thousandths) rounded to one decimal, ties to even
IsRoundedToTenth(t, similarity) ==
    /\ Abs(similarity - 100 * t) <= 50
    /\ Abs(similarity - 100 * t) = 50 => t % 2 = 0

\* C10: dimension_alignment has exactly the five dimension keys, each entry is
\* 100 - |value_a - value_b| rounded to one decimal and not clamped: in [0,100] when both
\* values are in [0,100], possibly below 0 otherwise, while compatibility_score stays
\* in [0,100].
C10_AlignmentUnclamped ==
    CompatReturned =>
        /\ DOMAIN result.dimension_alignment
              = {"goals", "intuition", "philosophy", "expectations", "leisure_time"}
        /\ \A d \in DOMAIN result.dimension_alignment :
              LET value_a == ValueOrNeutral(call.user_a_profile, d)
                  value_b == ValueOrNeutral(call.user_b_profile, d)
              IN  /\ IsRoundedToTenth(result.dimension_alignment[d],
                                      100 * Unit - Abs(value_a - value_b))
                  /\ (0 <= value_a /\ value_a <= 100 * Unit
                        /\ 0 <= value_b /\ value_b <= 100 * Unit)
                     => (0 <= result.dimension_alignment[d]
                          /\ result.dimension_alignment[d] <= 1000)
        /\ 0 <= result.compatibility_score /\ result.compatibility_score <= 1000

\* an out-of-range value gives alignment entries of -139.4 and a score clamped to 0
C10_Witness ==
    /\ CompatReturned
    /\ \A d \in Dimensions : result.dimension_alignment[d] = -1394
    /\ result.compatibility_score = 0

\* C11: for every profile A, calculate_compatibility(A, A, 0) returns a
\* dimension_alignment of 100 on every dimension and a compatibility_score of 100.0,
\* whether A's intention set is empty or not.
C11_SelfCompatibility ==
    (CompatReturned /\ call.user_a_profile = call.user_b_profile
        /\ call.proximity_minutes = 0)
    => /\ \A d \in Dimensions : result.dimension_alignment[d] = 1000
       /\ result.compatibility_score = 1000

\* a profile with out-of-range values, a missing dimension and no intentions, scored
\* against itself
C11_Witness ==
    /\ CompatReturned
    /\ call.user_a_profile = call.user_b_profile
    /\ call.proximity_minutes = 0
    /\ DOMAIN call.user_a_profile["dimensions"] = {"goals"}
    /\ call.user_a_profile["dimensions"]["goals"] < 0
    /\ DictGet(call.user_a_profile, "intentions", <<>>) = <<>>
    /\ result.compatibility_score = 1000

\* the intention sets a call is specified to compare
IntentionSetA == ToSet(DictGet(call.user_a_profile, "intentions", <<>>))

IntentionSetB == ToSet(DictGet(call.user_b_profile, "intentions", <<>>))

\* the specified overlap ratio of the call's intention sets, as <<numerator, denominator>>
JaccardOrNeutral ==
    IF IntentionSetA = {} \/ IntentionSetB = {} THEN <<1, 2>>
    ELSE <<Cardinality(IntentionSetA \cap IntentionSetB),
           Cardinality(IntentionSetA \cup IntentionSetB)>>

\* C12: compatibility_score = clamp(base * multiplier + bonus, 0, 100) rounded to one
\* decimal, where base is the sum of the per-dimension similarities weighted 0.25 goals,
\* 0.15 intuition, 0.20 philosophy, 0.25 expectations, 0.15 leisure_time, multiplier is
\* 0.8 + 0.4 * overlap ratio and bonus is min(20, proximity_minutes / 3); the example
\* profiles A and B with 45 minutes give the alignment 95, 95, 98, 95, 95 and 100.0.
C12_ScoreFormula ==
    CompatReturned =>
        LET sim(d) == 100 * Unit - Abs(ValueOrNeutral(call.user_a_profile, d)
                                       - ValueOrNeutral(call.user_b_profile, d))
            \* base, in 1/(100 * Unit)
            base == 25 * sim("goals") + 15 * sim("intuition") + 20 * sim("philosophy")
                    + 25 * sim("expectations") + 15 * sim("leisure_time")
            ratio == JaccardOrNeutral
            \* multiplier = (4 * ratio[2] + 2 * ratio[1]) / (5 * ratio[2])
            \* bonus = bonus3 / 3
            bonus3 == IF call.proximity_minutes >= 60 THEN 60 ELSE call.proximity_minutes
            den == (100 * Unit) * (5 * ratio[2]) * 3
            num == base * (4 * ratio[2] + 2 * ratio[1]) * 3
                   + bonus3 * (100 * Unit) * (5 * ratio[2])
            clamped == IF num < 0 THEN 0 ELSE IF num > 100 * den THEN 100 * den ELSE num
            tenth == den \div 10
            off == Abs(clamped - result.compatibility_score * tenth)
        IN  /\ 2 * off <= tenth
            /\ 2 * off = tenth => result.compatibility_score % 2 = 0
            /\ (call.user_a_profile = ExampleA /\ call.user_b_profile = ExampleB
                  /\ call.proximity_minutes = 45)
               => /\ result.dimension_alignment
                        = [goals |-> 950, intuition |-> 950, philosophy |-> 980,
                           expectations |-> 950, leisure_time |-> 950]
                  /\ result.compatibility_score = 1000

\* profiles that differ in every dimension and share one of two intentions, one minute
\* together: every term of the formula contributes and the score is not clamped
C12_Witness ==
    /\ CompatReturned
    /\ \A d \in Dimensions : result.dimension_alignment[d] < 1000
    /\ JaccardOrNeutral = <<1, 2>> /\ IntentionSetA # {} /\ IntentionSetB # {}
    /\ call.proximity_minutes = 1
    /\ result.compatibility_score > 0 /\ result.compatibility_score < 1000

\* the profile with its intentions list reversed and then repeated
Reshuffled(profile) ==
    IF "intentions" \in DOMAIN profile
    THEN LET l == profile["intentions"]
         IN  [profile EXCEPT !["intentions"] = [i \in 1..Len(l) |-> l[Len(l) + 1 - i]] \o l]
    ELSE profile

\* C13: the overlap ratio is |A n B| / |A u B| over the intentions taken as sets
\* (duplicates and order ignored, tags outside the vocabulary allowed) when both sets are
\* non-empty and exactly 0.5 when either is empty (multiplier 1.0); the multiplier
\* always lies in [0.8, 1.2].
C13_IntentionOverlapRatio ==
    CompatReturned =>
        LET ratio == JaccardOrNeutral
            multiplier == <<4 * ratio[2] + 2 * ratio[1], 5 * ratio[2]>>
            total == WeightedSum(call.user_a_profile["dimensions"],
                                 call.user_b_profile["dimensions"], Len(DimensionOrder))
        IN  /\ result.compatibility_score
                  = FinalScore(total, multiplier, call.proximity_minutes)
            /\ (IntentionSetA = {} \/ IntentionSetB = {}) => multiplier[1] = multiplier[2]
            /\ 4 * multiplier[2] <= 5 * multiplier[1]
            /\ 5 * multiplier[1] <= 6 * multiplier[2]
            /\ call.proximity_minutes = 0 =>
                  result = calculate_compatibility(Reshuffled(call.user_a_profile),
                                                   call.user_b_profile, 0)

\* a duplicated tag on one side, two tags in the other order on the other side:
\* the sets {build_together} and {build_together, make_friends} overlap by 1/2
C13_Witness ==
    /\ CompatReturned
    /\ DictGet(call.user_a_profile, "intentions", <<>>)
          = <<"build_together", "build_together">>
    /\ DictGet(call.user_b_profile, "intentions", <<>>)
          = <<"make_friends", "build_together">>
    /\ call.proximity_minutes = 0
    /\ result.compatibility_score > 0 /\ result.compatibility_score < 1000

\* -------------------------------------------- find_matches_for_event

InitRank ==
    /\ pc = "start"
    /\ call \in RankCalls
    /\ result = NoResult
    /\ TablesIdle
    /\ NoFrames

FindMatchesForEvent ==
    /\ pc = "start"
    /\ call.op = "find_matches_for_event"
    /\ result' = find_matches_for_event(call.user_profile, call.other_users,
                                        call.proximity_data, call.top_n)
    /\ pc' = "done"
    /\ UNCHANGED <<call, match_table, connection_table, clock, account_vars, event_vars, frames>>

NextRank == FindMatchesForEvent

SpecRank == InitRank /\ [][NextRank]_vars

\* --------------------------------------- calculate_proximity_overlap

InitProximity ==
    /\ pc = "start"
    /\ call \in ProximityCalls
    /\ result = NoResult
    /\ TablesIdle
    /\ NoFrames

CalculateProximityOverlap ==
    /\ pc = "start"
    /\ call.op = "calculate_proximity_overlap"
    /\ result' = calculate_proximity_overlap(call.checkin_a, call.checkin_b,
                                             call.max_distance_meters, call.utcnow)
    /\ pc' = "done"
    /\ UNCHANGED <<call, match_table, connection_table, clock, account_vars, event_vars, frames>>

NextProximity == CalculateProximityOverlap

SpecProximity == InitProximity /\ [][NextProximity]_vars

\* --------------------------------------------------- match endpoints

\* the tables hold MaxMatches fresh matches, each with or without an expiry time
InitMatch ==
    /\ pc = "serving"
    /\ call = [op |-> "none"]
    /\ result = NoResult
    /\ match_table \in {[m \in MatchIds |-> NewMatch(m, e[m])] : e \in [MatchIds -> ExpiryTimes]}
    /\ connection_table = <<>>
    /\ clock = 0
    /\ NoFrames
    /\ AccountsIdle /\ EventsIdle

\* a request is served in one step: the handler runs, the tables are committed and
\* the response is sent
RespondToMatch ==
    \E wallet_address \in Wallets, match_id \in 1..(MaxMatches + 1), accept \in BOOLEAN :
        \E served \in respond_to_match(match_table, connection_table,
                                        [match_id |-> match_id,
                                         wallet_address |-> wallet_address,
                                         accept |-> accept]) :
            /\ pc = "serving"
            /\ call' = [op |-> "respond_to_match", match_id |-> match_id,
                        wallet_address |-> wallet_address, accept |-> accept]
            /\ result' = served.response
            /\ match_table' = served.matches
            /\ connection_table' = served.connections
            /\ UNCHANGED <<pc, clock, account_vars, event_vars, frames>>

GetPendingMatches ==
    \E wallet_address \in Wallets :
        \E served \in {get_pending_matches(match_table, connection_table, wallet_address,
                                            clock)} :
            /\ pc = "serving"
            /\ call' = [op |-> "get_pending_matches", wallet_address |-> wallet_address]
            /\ result' = served.response
            /\ match_table' = served.matches
            /\ connection_table' = served.connections
            /\ UNCHANGED <<pc, clock, account_vars, event_vars, frames>>

GetMatches ==
    \E wallet_address \in Wallets, status \in StatusFilters :
        \E served \in {get_matches(match_table, connection_table, wallet_address, status,
                                    clock)} :
            /\ pc = "serving"
            /\ call' = [op |-> "get_matches", wallet_address |-> wallet_address,
                        status |-> status]
            /\ result' = served.response
            /\ match_table' = served.matches
            /\ connection_table' = served.connections
            /\ UNCHANGED <<pc, clock, account_vars, event_vars, frames>>

\* time passes between two requests
Tick ==
    /\ pc = "serving"
    /\ clock < MaxTime
    /\ clock' = clock + 1
    /\ UNCHANGED <<pc, call, result, match_table, connection_table, frames,
                   account_vars, event_vars>>

NextMatch == RespondToMatch \/ GetPendingMatches \/ GetMatches \/ Tick

SpecMatch == InitMatch /\ [][NextMatch]_vars

\* ------------------------ respond_to_match in several worker processes

\* every worker has received one request for a match nobody has answered yet
InitWorkers ==
    /\ pc = [w \in Workers |-> "start"]
    /\ call \in [Workers -> WorkerRequests]
    /\ result = [w \in Workers |-> NoResult]
    /\ match_table = [m \in MatchIds |-> NewMatch(m, NoneValue)]
    /\ connection_table = <<>>
    /\ clock = 0
    /\ frames = [w \in Workers |-> NoSession]
    /\ AccountsIdle /\ EventsIdle

\* the worker's handler queries the match and the user and runs its checks
WorkerLoad(w) ==
    /\ pc[w] = "start"
    /\ LET loaded == LoadMatch(match_table, call[w])
       IN  IF loaded.raised # NoneValue
           THEN /\ result' = [result EXCEPT ![w] = loaded.raised[1]]
                /\ pc' = [pc EXCEPT ![w] = "done"]
                /\ UNCHANGED frames
           ELSE /\ frames' = [frames EXCEPT ![w].match = loaded.match]
                /\ pc' = [pc EXCEPT ![w] = "loaded"]
                /\ UNCHANGED result
    /\ UNCHANGED <<call, match_table, connection_table, clock, account_vars, event_vars>>

\* the worker's handler assigns the answer on its copy and commits
WorkerCommit(w) ==
    /\ pc[w] = "loaded"
    /\ LET committed == CommitResponse(match_table, connection_table,
                                       frames[w].match[1], call[w])
       IN  /\ match_table' = committed.matches
           /\ connection_table' = committed.connections
           /\ frames' = [frames EXCEPT ![w].connection_id = committed.connection_id]
           /\ IF committed.response # NoneValue
              THEN /\ result' = [result EXCEPT ![w] = committed.response[1]]
                   /\ pc' = [pc EXCEPT ![w] = "done"]
              ELSE /\ pc' = [pc EXCEPT ![w] = "minting"]
                   /\ UNCHANGED result
    /\ UNCHANGED <<call, clock, account_vars, event_vars>>

\* the worker's handler has inserted the Connection: it mints, writes the receipt on
\* the Connection if there is one, commits and answers
WorkerMint(w) ==
    /\ pc[w] = "minting"
    /\ \E nft_result \in MintResults(frames[w].connection_id[1]) :
          /\ connection_table' =
                 [connection_table EXCEPT ![frames[w].connection_id[1]] =
                     WithNft(connection_table[frames[w].connection_id[1]], nft_result)]
          /\ result' = [result EXCEPT ![w] =
                            [status_code |-> 200, status |-> "connected",
                             nft_minted |-> nft_result # NoneValue]]
    /\ pc' = [pc EXCEPT ![w] = "done"]
    /\ UNCHANGED <<call, match_table, clock, account_vars, event_vars, frames>>

NextWorkers == \E w \in Workers : WorkerLoad(w) \/ WorkerCommit(w) \/ WorkerMint(w)

SpecWorkers == InitWorkers /\ [][NextWorkers]_vars

\* ------------------------ check_in and check_out in several worker processes
\*
\* Every worker serves one request at a time; between two statements of a handler the
\* other workers may run theirs.

InitCheckIn ==
    /\ pc = [w \in Workers |-> "idle"]
    /\ call = [w \in Workers |-> [op |-> "none"]]
    /\ result = [w \in Workers |-> NoResult]
    /\ match_table = <<>> /\ connection_table = <<>> /\ clock = 0
    /\ frames = [w \in Workers |-> NoLocals]
    /\ user_table = RegisteredUsers /\ profile_table = <<>> /\ session_store = <<>>
    /\ EventsIdle

\* check_in, lines 62-70: the user and the event are queried
CheckInBegin(w) ==
    /\ pc[w] = "idle"
    /\ Len(checkin_table) + Cardinality(CheckInsInFlight) < MaxCheckIns
    /\ \E request \in CheckInRequests :
          LET event == EventByEventId(event_table, request.event_id)
          IN  /\ call' = [call EXCEPT ![w] = [op |-> "check_in", user_id |-> request.user_id,
                                                event_id |-> request.event_id]]
              /\ frames' = [frames EXCEPT ![w] = [NoLocals EXCEPT !.event = event]]
              /\ IF UserById(user_table, request.user_id) = NoneValue
                 THEN /\ result' = [result EXCEPT ![w] =
                                        [status_code |-> 404, detail |-> "User not found"]]
                      /\ UNCHANGED pc
                 ELSE /\ result' = [result EXCEPT ![w] = NoResult]
                      /\ pc' = [pc EXCEPT ![w] =
                                   IF event = NoneValue THEN "create_event" ELSE "find_active"]
    /\ UNCHANGED <<match_table, connection_table, clock, account_vars, event_vars>>

\* check_in, lines 71-80: the event is inserted and committed; events.event_id is unique
CheckInCreateEvent(w) ==
    /\ pc[w] = "create_event"
    /\ IF EventByEventId(event_table, call[w].event_id) # NoneValue
       THEN /\ result' = [result EXCEPT ![w] =
                              [status_code |-> 500, detail |-> "IntegrityError"]]
            /\ pc' = [pc EXCEPT ![w] = "idle"]
            /\ UNCHANGED <<event_table, frames>>
       ELSE /\ event_table' = Append(event_table,
                                     NewEvent(Len(event_table) + 1, call[w].event_id))
            /\ frames' = [frames EXCEPT ![w].event = Some(Len(event_table) + 1)]
            /\ pc' = [pc EXCEPT ![w] = "find_active"]
            /\ UNCHANGED result
    /\ UNCHANGED <<call, match_table, connection_table, clock, account_vars, checkin_table>>

\* check_in, lines 82-93: the active check-in of the user at the event is queried
CheckInFindActive(w) ==
    /\ pc[w] = "find_active"
    /\ IF ActiveCheckIn(checkin_table, call[w].user_id, frames[w].event[1]) # NoneValue
       THEN /\ result' = [result EXCEPT ![w] =
                              [status_code |-> 400,
                               detail |-> "User already checked into this event"]]
            /\ pc' = [pc EXCEPT ![w] = "idle"]
       ELSE /\ pc' = [pc EXCEPT ![w] = "insert"]
            /\ UNCHANGED result
    /\ UNCHANGED <<call, frames, match_table, connection_table, clock, account_vars,
                   event_vars>>

\* check_in, lines 95-111: the record is inserted and committed
CheckInInsert(w) ==
    /\ pc[w] = "insert"
    /\ checkin_table' = Append(checkin_table,
                               NewCheckIn(Len(checkin_table) + 1, call[w].user_id,
                                          frames[w].event[1]))
    /\ result' = [result EXCEPT ![w] =
                      [status_code |-> 200, status |-> "checked_in",
                       check_in_id |-> Len(checkin_table) + 1]]
    /\ pc' = [pc EXCEPT ![w] = "idle"]
    /\ UNCHANGED <<call, frames, match_table, connection_table, clock, account_vars,
                   event_table>>

\* check_out, lines 121-139: the event and the active check-in are queried
CheckOutBegin(w) ==
    /\ pc[w] = "idle"
    /\ \E request \in CheckInRequests :
          LET event == EventByEventId(event_table, request.event_id)
              check_in == IF event = NoneValue THEN NoneValue
                          ELSE ActiveCheckIn(checkin_table, request.user_id, event[1])
          IN  /\ call' = [call EXCEPT ![w] = [op |-> "check_out", user_id |-> request.user_id,
                                                event_id |-> request.event_id]]
              /\ frames' = [frames EXCEPT ![w] = [event |-> event, check_in |-> check_in]]
              /\ IF check_in = NoneValue
                 THEN /\ result' = [result EXCEPT ![w] =
                                        [status_code |-> 404,
                                         detail |-> IF event = NoneValue
                                                    THEN "Event not found"
                                                    ELSE "No active check-in found"]]
                      /\ UNCHANGED pc
                 ELSE /\ result' = [result EXCEPT ![w] = NoResult]
                      /\ pc' = [pc EXCEPT ![w] = "check_out"]
    /\ UNCHANGED <<match_table, connection_table, clock, account_vars, event_vars>>

\* check_out, lines 141-152: check_out_time is written and committed
CheckOutCommit(w) ==
    /\ pc[w] = "check_out"
    /\ checkin_table' = [checkin_table EXCEPT ![frames[w].check_in[1]].check_out_time =
                                                  Some("datetime")]
    /\ result' = [result EXCEPT ![w] = [status_code |-> 200, status |-> "checked_out"]]
    /\ pc' = [pc EXCEPT ![w] = "idle"]
    /\ UNCHANGED <<call, frames, match_table, connection_table, clock, account_vars,
                   event_table>>

NextCheckIn ==
    \E w \in Workers :
        \/ CheckInBegin(w) \/ CheckInCreateEvent(w) \/ CheckInFindActive(w)
        \/ CheckInInsert(w) \/ CheckOutBegin(w) \/ CheckOutCommit(w)

SpecCheckIn == InitCheckIn /\ [][NextCheckIn]_vars

\* ---------------------------------------- the social profile endpoints

\* every user has saved social profiles under a visibility of their choice; the
\* matches are fresh
InitSocial ==
    /\ pc = "serving"
    /\ call = [op |-> "none"]
    /\ result = NoResult
    /\ match_table = [m \in MatchIds |-> NewMatch(m, NoneValue)]
    /\ connection_table = <<>>
    /\ clock = 0
    /\ NoFrames
    /\ user_table = <<>> /\ session_store = <<>>
    /\ profile_table \in {[u \in UserIds |-> SocialProfile(u, v[u])] :
                              v \in [UserIds -> Visibilities]}
    /\ EventsIdle

GetSocialProfiles ==
    \E wallet_address \in Wallets, current_user \in OptionalUsers :
        /\ pc = "serving"
        /\ call' = [op |-> "get_social_profiles", wallet_address |-> wallet_address,
                    current_user |-> current_user]
        /\ result' = get_social_profiles(profile_table, connection_table, wallet_address,
                                         current_user)
        /\ UNCHANGED <<pc, match_table, connection_table, clock, frames, account_vars,
                       event_vars>>

GetFollowAllLinks ==
    \E match_id \in 1..(MaxMatches + 1), requester_wallet \in Wallets :
        /\ pc = "serving"
        /\ call' = [op |-> "get_follow_all_links", match_id |-> match_id,
                    requester_wallet |-> requester_wallet]
        /\ result' = get_follow_all_links(match_table, connection_table, profile_table,
                                          match_id, requester_wallet)
        /\ UNCHANGED <<pc, match_table, connection_table, clock, frames, account_vars,
                       event_vars>>

NextSocial == RespondToMatch \/ GetSocialProfiles \/ GetFollowAllLinks

SpecSocial == InitSocial /\ [][NextSocial]_vars

\* ---------------------------------------- the chat endpoints

\* an empty database and no session
InitChat ==
    /\ pc = "serving"
    /\ call = [op |-> "none"]
    /\ result = NoResult
    /\ match_table = <<>> /\ connection_table = <<>> /\ clock = 0
    /\ NoFrames
    /\ AccountsIdle /\ EventsIdle

\* a request of the chat router is served; the tables and the sessions become the
\* handler's outcome
StartChatSession ==
    \E wallet_address \in ChatWallets :
        \E served \in {start_chat_session(user_table, profile_table, session_store,
                                           wallet_address, clock)} :
            /\ pc = "serving"
            /\ clock < MaxSessions
            /\ call' = [op |-> "start_chat_session", wallet_address |-> wallet_address]
            /\ result' = served.response
            /\ session_store' = served.sessions
            /\ clock' = IF served.response.status_code = 200 THEN clock + 1 ELSE clock
            /\ UNCHANGED <<pc, match_table, connection_table, frames, user_table,
                           profile_table, event_vars>>

SendChatMessage ==
    \E wallet_address \in ChatWallets, session_id \in SessionIds, message \in Messages :
        \E served \in {send_chat_message(user_table, profile_table, session_store,
                                          [wallet_address |-> wallet_address,
                                           session_id |-> session_id,
                                           message |-> message])} :
            /\ pc = "serving"
            /\ call' = [op |-> "send_chat_message", wallet_address |-> wallet_address,
                        session_id |-> session_id]
            /\ result' = served.response
            /\ session_store' = served.sessions
            /\ UNCHANGED <<pc, match_table, connection_table, clock, frames, user_table,
                           profile_table, event_vars>>

CompleteChatSession ==
    \E wallet_address \in ChatWallets, session_id \in SessionIds,
       ai_analysis \in AnalysisResults :
        \E served \in {complete_chat_session(user_table, profile_table, session_store,
                                              [wallet_address |-> wallet_address,
                                               session_id |-> session_id],
                                              ai_analysis)} :
            /\ pc = "serving"
            /\ call' = [op |-> "complete_chat_session", wallet_address |-> wallet_address,
                        session_id |-> session_id]
            /\ result' = served.response
            /\ user_table' = served.users
            /\ profile_table' = served.profiles
            /\ session_store' = served.sessions
            /\ UNCHANGED <<pc, match_table, connection_table, clock, frames, event_vars>>

DeleteChatSession ==
    \E wallet_address \in ChatWallets, session_id \in SessionIds :
        \E served \in {delete_chat_session(user_table, profile_table, session_store,
                                            session_id, wallet_address)} :
            /\ pc = "serving"
            /\ call' = [op |-> "delete_chat_session", wallet_address |-> wallet_address,
                        session_id |-> session_id]
            /\ result' = served.response
            /\ session_store' = served.sessions
            /\ UNCHANGED <<pc, match_table, connection_table, clock, frames, user_table,
                           profile_table, event_vars>>

NextChat == StartChatSession \/ SendChatMessage \/ CompleteChatSession \/ DeleteChatSession

SpecChat == InitChat /\ [][NextChat]_vars

\* ------------------------ onboarding requests in several worker processes
\*
\* Every worker serves one request at a time; a handler runs from one commit to the
\* next in one step, and between two steps the other workers may run theirs.

\* an empty database; each spelling of the wallet has a chat session with all five
\* answers, as the chat endpoints leave it before complete_chat_session is called
InitOnboard ==
    /\ pc = [w \in Workers |-> "idle"]
    /\ call = [w \in Workers |-> [op |-> "none"]]
    /\ result = [w \in Workers |-> NoResult]
    /\ match_table = <<>> /\ connection_table = <<>> /\ clock = 0
    /\ frames = [w \in Workers |-> NoOnboarding]
    /\ user_table = <<>> /\ profile_table = <<>>
    /\ session_store = [s \in {SessionId(a, 0) : a \in OnboardWallets} |->
                           AnsweredSession(s[1])]
    /\ EventsIdle

\* the handler goes on with the user it found, or to the insert of a new user
GoOn(w, wallet_address, ai_analysis, existing_user) ==
    /\ frames' = [frames EXCEPT ![w] = [wallet_address |-> Some(wallet_address),
                                         ai_analysis |-> ai_analysis,
                                         user |-> existing_user]]
    /\ result' = [result EXCEPT ![w] = NoResult]
    /\ pc' = [pc EXCEPT ![w] = IF existing_user = NoneValue THEN "insert_user"
                                ELSE "insert_profile"]

\* the handler answers and the worker is free again
Answer(w, response) ==
    /\ result' = [result EXCEPT ![w] = response]
    /\ pc' = [pc EXCEPT ![w] = "idle"]
    /\ frames' = [frames EXCEPT ![w] = NoOnboarding]

\* create_profile, lines 75-90: validation, the query of the user, the check for a
\* profile and the analysis
CreateProfileBegin(w) ==
    /\ pc[w] = "idle"
    /\ \E wallet_address \in OnboardWallets, ai_analysis \in AnalysisResults :
          LET validated_wallet == validate_wallet_address(wallet_address)
              existing_user == UserOfWallet(user_table, validated_wallet)
          IN  /\ call' = [call EXCEPT ![w] = [op |-> "create_profile",
                                                wallet_address |-> wallet_address]]
              /\ IF HasProfile(user_table, profile_table, validated_wallet)
                 THEN Answer(w, [status_code |-> 400,
                                 detail |-> "Profile already exists for this wallet"])
                 ELSE GoOn(w, validated_wallet, Some(ai_analysis), existing_user)
    /\ UNCHANGED <<match_table, connection_table, clock, account_vars, event_vars>>

\* complete_chat_session, lines 194-243: the session checks, the analysis, the query
\* of the user and the check for a profile
CompleteSessionBegin(w) ==
    /\ pc[w] = "idle"
    /\ \E wallet_address \in OnboardWallets, session_wallet \in OnboardWallets,
          ai_analysis \in AnalysisResults :
          LET session_id == SessionId(session_wallet, 0)
              existing_user == UserOfWallet(user_table, wallet_address)
          IN  /\ call' = [call EXCEPT ![w] = [op |-> "complete_chat_session",
                                                wallet_address |-> wallet_address,
                                                session_id |-> session_id]]
              /\ IF session_id \notin DOMAIN session_store
                 THEN Answer(w, [status_code |-> 404,
                                 detail |-> "Chat session not found or expired"])
                 ELSE IF session_store[session_id].wallet_address # wallet_address
                 THEN Answer(w, [status_code |-> 403,
                                 detail |-> "Unauthorized access to chat session"])
                 ELSE IF ~AllAnswered(session_store[session_id])
                 THEN Answer(w, [status_code |-> 400,
                                 detail |-> "Not all questions have been answered"])
                 ELSE IF HasProfile(user_table, profile_table, wallet_address)
                 THEN Answer(w, [status_code |-> 400, detail |-> "Profile already exists"])
                 ELSE GoOn(w, wallet_address, Some(ai_analysis), existing_user)
    /\ UNCHANGED <<match_table, connection_table, clock, account_vars, event_vars>>

\* wallet_login, lines 35-51 and 65-73: validation, the signature check, the query of
\* the user; a user that exists gets its token
WalletLoginBegin(w) ==
    /\ pc[w] = "idle"
    /\ \E wallet_address \in OnboardWallets, is_valid \in BOOLEAN :
          LET validated_wallet == validate_wallet_address(wallet_address)
              user == UserOfWallet(user_table, validated_wallet)
          IN  /\ call' = [call EXCEPT ![w] = [op |-> "wallet_login",
                                                wallet_address |-> wallet_address]]
              /\ IF ~is_valid
                 THEN Answer(w, [status_code |-> 401, detail |-> "Invalid wallet signature"])
                 ELSE IF user # NoneValue
                 THEN Answer(w, [status_code |-> 200, token_type |-> "bearer"])
                 ELSE GoOn(w, validated_wallet, NoneValue, user)
    /\ UNCHANGED <<match_table, connection_table, clock, account_vars, event_vars>>

\* the insert of the user and its commit (profiles.py 93-100, chat.py 230-234,
\* auth.py 53-57)
InsertUser(w) ==
    /\ pc[w] = "insert_user"
    /\ IF WalletTaken(user_table, frames[w].wallet_address[1])
       THEN /\ Answer(w, [status_code |-> 500, detail |-> "IntegrityError"])
            /\ UNCHANGED user_table
       ELSE /\ user_table' = Append(user_table,
                                    CreatedUser(user_table, frames[w].wallet_address[1]))
            /\ frames' = [frames EXCEPT ![w].user = Some(Len(user_table) + 1)]
            /\ pc' = [pc EXCEPT ![w] = "insert_profile"]
            /\ UNCHANGED result
    /\ UNCHANGED <<call, match_table, connection_table, clock, profile_table,
                   session_store, event_vars>>

\* the insert of the profile and its commit (profiles.py 102-116, chat.py 246-263,
\* auth.py 59-62); complete_chat_session then deletes its session
InsertProfile(w) ==
    /\ pc[w] = "insert_profile"
    /\ LET user_id == frames[w].user[1]
           profile == IF call[w].op = "wallet_login"
                      THEN DefaultProfile(profile_table, user_id)
                      ELSE AnalysedProfile(profile_table, user_id, frames[w].ai_analysis[1])
       IN  IF ProfileTaken(profile_table, user_id)
           THEN /\ Answer(w, [status_code |-> 500, detail |-> "IntegrityError"])
                /\ UNCHANGED <<profile_table, session_store>>
           ELSE /\ profile_table' = Append(profile_table, profile)
                /\ session_store' = IF call[w].op = "complete_chat_session"
                                    THEN Pop(session_store, call[w].session_id)
                                    ELSE session_store
                /\ Answer(w, [status_code |-> 200, profile_id |-> profile.id])
    /\ UNCHANGED <<call, match_table, connection_table, clock, user_table, event_vars>>

NextOnboard ==
    \E w \in Workers :
        \/ CreateProfileBegin(w) \/ CompleteSessionBegin(w) \/ WalletLoginBegin(w)
        \/ InsertUser(w) \/ InsertProfile(w)

SpecOnboard == InitOnboard /\ [][NextOnboard]_vars

\* ---------------------------------------- calls from several threads

\* every thread is about to call one function of the engine on the shared arguments
InitThreads ==
    /\ pc = [t \in Threads |-> [at |-> "start", i |-> 0]]
    /\ \E arguments \in SharedArguments, op \in [Threads -> EngineFunctions] :
          call = [op |-> op, arguments |-> arguments]
    /\ result = [t \in Threads |-> NoResult]
    /\ TablesIdle
    /\ frames = [c \in {MatchesCell(t) : t \in Threads} |-> <<>>]

\* a thread runs calculate_compatibility on the requester and the first other user
ThreadCompatibility(t) ==
    /\ pc[t].at = "start" /\ call.op[t] = "calculate_compatibility"
    /\ result' = [result EXCEPT ![t] =
                      calculate_compatibility(call.arguments.user_profile,
                                              call.arguments.other_users[1], 45)]
    /\ pc' = [pc EXCEPT ![t] = [at |-> "done", i |-> 0]]
    /\ UNCHANGED <<call, match_table, connection_table, clock, account_vars, event_vars, frames>>

\* a thread runs calculate_proximity_overlap on the two check-ins
ThreadProximity(t) ==
    /\ pc[t].at = "start" /\ call.op[t] = "calculate_proximity_overlap"
    /\ result' = [result EXCEPT ![t] =
                      calculate_proximity_overlap(call.arguments.checkin_a,
                                                  call.arguments.checkin_b,
                                                  DefaultMaxDistance, call.arguments.utcnow)]
    /\ pc' = [pc EXCEPT ![t] = [at |-> "done", i |-> 0]]
    /\ UNCHANGED <<call, match_table, connection_table, clock, account_vars, event_vars, frames>>

\* find_matches_for_event, entry: matches = []
ThreadRankEnter(t) ==
    /\ pc[t].at = "start" /\ call.op[t] = "find_matches_for_event"
    /\ frames' = [frames EXCEPT ![MatchesCell(t)] = <<>>]
    /\ pc' = [pc EXCEPT ![t] = [at |-> "loop", i |-> 1]]
    /\ UNCHANGED <<call, result, match_table, connection_table, clock, account_vars, event_vars>>

\* find_matches_for_event, one turn of the loop: the record of other_users[i] is
\* appended to matches
ThreadRankAppend(t) ==
    /\ pc[t].at = "loop" /\ pc[t].i <= Len(call.arguments.other_users)
    /\ LET other_user == call.arguments.other_users[pc[t].i]
           proximity == IF call.arguments.proximity_data = NoneValue THEN <<>>
                        ELSE call.arguments.proximity_data[1]
           proximity_minutes == DictGet(proximity, other_user["id"], 0)
       IN  frames' = [frames EXCEPT ![MatchesCell(t)] =
                         Append(@, MatchRecord(call.arguments.user_profile, other_user,
                                               proximity_minutes))]
    /\ pc' = [pc EXCEPT ![t] = [at |-> "loop", i |-> pc[t].i + 1]]
    /\ UNCHANGED <<call, result, match_table, connection_table, clock, account_vars, event_vars>>

\* find_matches_for_event, after the loop: matches is sorted in place and its first
\* top_n records are returned
ThreadRankReturn(t) ==
    /\ pc[t].at = "loop" /\ pc[t].i > Len(call.arguments.other_users)
    /\ frames' = [frames EXCEPT ![MatchesCell(t)] = SortByScore(@)]
    /\ result' = [result EXCEPT ![t] =
                      [raised |-> None,
                       matches |-> SliceTo(SortByScore(frames[MatchesCell(t)]),
                                           call.arguments.top_n)]]
    /\ pc' = [pc EXCEPT ![t] = [at |-> "done", i |-> 0]]
    /\ UNCHANGED <<call, match_table, connection_table, clock, account_vars, event_vars>>

NextThreads ==
    \E t \in Threads :
        \/ ThreadCompatibility(t)
        \/ ThreadProximity(t)
        \/ ThreadRankEnter(t)
        \/ ThreadRankAppend(t)
        \/ ThreadRankReturn(t)

SpecThreads == InitThreads /\ [][NextThreads]_vars

\* what the call of thread t returns when no other call runs
Sequential(arguments, function) ==
    IF function = "calculate_compatibility"
    THEN calculate_compatibility(arguments.user_profile, arguments.other_users[1], 45)
    ELSE IF function = "calculate_proximity_overlap"
    THEN calculate_proximity_overlap(arguments.checkin_a, arguments.checkin_b,
                                     DefaultMaxDistance, arguments.utcnow)
    ELSE find_matches_for_event(arguments.user_profile, arguments.other_users,
                                arguments.proximity_data, arguments.top_n)

\* C14: no step of calculate_compatibility, find_matches_for_event or
\* calculate_proximity_overlap changes the arguments, and a call interleaved with the
\* calls of other threads on the same arguments returns what the same call returns
\* when made alone.
C14_InterleavedCallsAgree ==
    [][/\ call' = call
       /\ \A t \in Threads :
             pc'[t].at = "done" => result'[t] = Sequential(call.arguments, call.op[t])]_vars

\* thread 1 is in the middle of its loop over other_users while thread 2 has entered,
\* looped and returned from find_matches_for_event on the same arguments
C14_Witness ==
    /\ call.op[1] = "find_matches_for_event" /\ call.op[2] = "find_matches_for_event"
    /\ pc[1].at = "loop" /\ pc[1].i = 2
    /\ pc[2].at = "done"
    /\ result[2].raised = None /\ Len(result[2].matches) > 1
    /\ Len(frames[MatchesCell(1)]) = 1

\* ------------------------------------ properties of the match endpoints

\* the ids of the Connection rows of a match
ConnectionsOf(table, m) == {i \in 1..Len(table) : table[i].match_id = m}

\* exactly one participant has accepted and the other has not responded
OneAcceptedOtherSilent(row) ==
    \/ /\ row.user_a_accepted = Some(TRUE)
       /\ row.user_b_accepted = NoneValue /\ row.user_b_responded_at = NoneValue
    \/ /\ row.user_b_accepted = Some(TRUE)
       /\ row.user_a_accepted = NoneValue /\ row.user_a_responded_at = NoneValue

\* the last request served was an answer of a participant who had not answered before
Answered == call.op = "respond_to_match" /\ result.status_code = 200

\* C17 (as stated): after exactly one participant has accepted via respond_to_match and
\* the other has not responded, the match status is still PENDING and no Connection
\* exists for the match.
C17_PendingUntilBothAccept ==
    \A m \in DOMAIN match_table :
        OneAcceptedOtherSilent(match_table[m]) =>
            /\ match_table[m].status = PENDING
            /\ ConnectionsOf(connection_table, m) = {}

\* C17 (amended): after exactly one participant has accepted via respond_to_match and
\* the other has not responded, no Connection exists for the match and its status is
\* PENDING, or EXPIRED when its expires_at lies in the past (the expiry sweep of a
\* listing request ran before or after the acceptance); it is never ACCEPTED or REJECTED.
C17_PendingOrExpiredUntilBothAccept ==
    \A m \in DOMAIN match_table :
        OneAcceptedOtherSilent(match_table[m]) =>
            /\ match_table[m].status \in {PENDING, EXPIRED}
            /\ match_table[m].status = EXPIRED =>
                  /\ match_table[m].expires_at # NoneValue
                  /\ match_table[m].expires_at[1] < clock
            /\ ConnectionsOf(connection_table, m) = {}

\* user_a has just accepted, user_b has not responded: the response says pending and the
\* match is PENDING
C17_Witness ==
    /\ Answered /\ call.accept /\ result.status = "pending"
    /\ match_table[call.match_id].user_a_accepted = Some(TRUE)
    /\ OneAcceptedOtherSilent(match_table[call.match_id])
    /\ match_table[call.match_id].status = PENDING
    /\ connection_table = <<>>

\* C18: when both participants of a match have accepted through respond_to_match, the
\* match status is ACCEPTED and a Connection exists with the match's user_a_id,
\* user_b_id and event_id, whether or not the NFT was minted.
C18_BothAcceptedConnects ==
    \A m \in DOMAIN match_table :
        (match_table[m].user_a_accepted = Some(TRUE)
            /\ match_table[m].user_b_accepted = Some(TRUE))
        => /\ match_table[m].status = ACCEPTED
           /\ \E i \in ConnectionsOf(connection_table, m) :
                 /\ connection_table[i].user_a_id = match_table[m].user_a_id
                 /\ connection_table[i].user_b_id = match_table[m].user_b_id
                 /\ connection_table[i].event_id = match_table[m].event_id

\* the second acceptance has just been served and mint_connection_nft returned None
C18_Witness ==
    /\ Answered /\ call.accept /\ result.status = "connected" /\ ~result.nft_minted
    /\ match_table[call.match_id].status = ACCEPTED
    /\ \E i \in ConnectionsOf(connection_table, call.match_id) :
          connection_table[i].connection_nft_id = NoneValue

\* a participant has rejected the match
Rejected(row) == row.user_a_accepted = Some(FALSE) \/ row.user_b_accepted = Some(FALSE)

\* C19: once either participant rejects through respond_to_match the match status is
\* REJECTED; in every later state, whatever the other participant answers, the status
\* stays REJECTED and no Connection is created for the match.
C19_RejectedIsFinal ==
    [][\A m \in DOMAIN match_table :
          /\ m \in DOMAIN match_table'
          /\ Rejected(match_table[m]) => Rejected(match_table'[m])
          /\ Rejected(match_table'[m]) =>
                /\ match_table'[m].status = REJECTED
                /\ ConnectionsOf(connection_table', m) = {}
          /\ match_table[m].status = REJECTED => match_table'[m].status = REJECTED]_vars

\* user_a rejected, then user_b accepted: the match is still REJECTED, without Connection
C19_Witness ==
    /\ Answered /\ call.accept
    /\ match_table[call.match_id].user_a_accepted = Some(FALSE)
    /\ match_table[call.match_id].user_b_accepted = Some(TRUE)
    /\ match_table[call.match_id].status = REJECTED
    /\ connection_table = <<>>

\* C20: after any sequence of respond_to_match calls by any users, every match has at
\* most one Connection.
C20_OneConnectionPerMatch ==
    \A m \in DOMAIN match_table :
        Cardinality(ConnectionsOf(connection_table, m)) <= 1

\* the match has its Connection and a participant who answers again is refused
C20_Witness ==
    /\ call.op = "respond_to_match" /\ call.accept /\ result.status_code = 400
    /\ match_table[call.match_id].status = ACCEPTED
    /\ Cardinality(ConnectionsOf(connection_table, call.match_id)) = 1

\* the step serves a listing request (get_pending_matches or get_matches)
ListingStep ==
    /\ call'.op \in {"get_pending_matches", "get_matches"}
    /\ clock' = clock
    /\ UserByWallet(call'.wallet_address) # NoneValue

\* the match is PENDING with expires_at earlier than now
Overdue(row, utcnow) ==
    row.status = PENDING /\ row.expires_at # NoneValue /\ row.expires_at[1] < utcnow

\* C22: when get_pending_matches or get_matches runs for a user at time now, every match
\* of that user that is PENDING with expires_at earlier than now becomes EXPIRED, every
\* other match is left unchanged, and get_pending_matches returns no match whose
\* expires_at is earlier than now.
C22_ListingExpiresOverdue ==
    [][ListingStep =>
          LET user_id == UserByWallet(call'.wallet_address)[1]
          IN  /\ DOMAIN match_table' = DOMAIN match_table
              /\ connection_table' = connection_table
              /\ \A m \in DOMAIN match_table :
                    IF Overdue(match_table[m], clock) /\ IsParticipant(match_table[m], user_id)
                    THEN match_table'[m] = [match_table[m] EXCEPT !.status = EXPIRED]
                    ELSE match_table'[m] = match_table[m]
              /\ call'.op = "get_pending_matches" =>
                    /\ result'.status_code = 200
                    /\ \A m \in result'.match_ids :
                          /\ IsParticipant(match_table'[m], user_id)
                          /\ match_table'[m].status = PENDING
                          /\ ~(match_table'[m].expires_at # NoneValue
                                 /\ match_table'[m].expires_at[1] < clock)]_vars

\* get_pending_matches has just run after the match's expires_at: the match is EXPIRED
\* and the list is empty
C22_Witness ==
    /\ call.op = "get_pending_matches" /\ result.status_code = 200
    /\ result.match_ids = {}
    /\ \E m \in DOMAIN match_table :
          /\ IsParticipant(match_table[m], UserByWallet(call.wallet_address)[1])
          /\ match_table[m].status = EXPIRED
          /\ match_table[m].expires_at # NoneValue /\ match_table[m].expires_at[1] < clock

\* the step serves a respond_to_match request of a known user for a stored match
RespondStep ==
    /\ call'.op = "respond_to_match"
    /\ clock' = clock
    /\ call'.match_id \in DOMAIN match_table
    /\ UserByWallet(call'.wallet_address) # NoneValue

\* the user's own responded_at in the match is set
HasResponded(row, user_id) ==
    \/ row.user_a_id = user_id /\ row.user_a_responded_at # NoneValue
    \/ row.user_b_id = user_id /\ row.user_b_responded_at # NoneValue

\* C24: a respond_to_match call by a participant whose responded_at is already set
\* returns 400 and a call by a user who is neither user_a nor user_b returns 403; both
\* leave the matches (accepted flags, responded_at, status) and the Connections
\* unchanged.
C24_AnswerOnce ==
    [][RespondStep =>
          LET row == match_table[call'.match_id]
              user_id == UserByWallet(call'.wallet_address)[1]
          IN  /\ ~IsParticipant(row, user_id) => result'.status_code = 403
              /\ HasResponded(row, user_id) => result'.status_code = 400
              /\ result'.status_code \in {400, 403} =>
                     /\ match_table' = match_table
                     /\ connection_table' = connection_table]_vars

\* user_a accepted, then tried to reject: refused with 400, the acceptance stands
C24_Witness ==
    /\ call.op = "respond_to_match" /\ ~call.accept /\ result.status_code = 400
    /\ call.wallet_address = Wallet(match_table[call.match_id].user_a_id)
    /\ match_table[call.match_id].user_a_accepted = Some(TRUE)
    /\ match_table[call.match_id].user_a_responded_at # NoneValue
    /\ match_table[call.match_id].status = PENDING

\* C26: a match that has become EXPIRED never leaves that status: no later
\* respond_to_match call turns it into ACCEPTED or REJECTED, and no Connection is
\* created for it.
C26_ExpiredIsFinal ==
    [][\A m \in DOMAIN match_table :
          match_table[m].status = EXPIRED =>
              /\ match_table'[m].status = EXPIRED
              /\ ConnectionsOf(connection_table', m) = {}]_vars

\* C28: in every state reachable through respond_to_match and the listing endpoints, a
\* Connection for a match exists only if that match's status is ACCEPTED and both
\* user_a_accepted and user_b_accepted are true, and a match's status is ACCEPTED only
\* if a Connection for it exists.
C28_ConnectionIffAccepted ==
    /\ \A i \in 1..Len(connection_table) :
          /\ connection_table[i].match_id \in DOMAIN match_table
          /\ match_table[connection_table[i].match_id].status = ACCEPTED
          /\ match_table[connection_table[i].match_id].user_a_accepted = Some(TRUE)
          /\ match_table[connection_table[i].match_id].user_b_accepted = Some(TRUE)
    /\ \A m \in DOMAIN match_table :
          match_table[m].status = ACCEPTED => ConnectionsOf(connection_table, m) # {}

\* the match is ACCEPTED with its Connection, and a listing request has run after its
\* expires_at without touching it
C28_Witness ==
    /\ call.op \in {"get_pending_matches", "get_matches"} /\ result.status_code = 200
    /\ \E m \in DOMAIN match_table :
          /\ IsParticipant(match_table[m], UserByWallet(call.wallet_address)[1])
          /\ match_table[m].status = ACCEPTED
          /\ match_table[m].expires_at # NoneValue /\ match_table[m].expires_at[1] < clock
          /\ ConnectionsOf(connection_table, m) # {}

\* the workers w1 and w2 serve the acceptances of the two participants of match m
BothAccepting(w1, w2, m) ==
    /\ call[w1] = [match_id |-> m, wallet_address |-> Wallet(match_table[m].user_a_id),
                   accept |-> TRUE]
    /\ call[w2] = [match_id |-> m, wallet_address |-> Wallet(match_table[m].user_b_id),
                   accept |-> TRUE]

\* every worker has answered its request
WorkersDone == \A w \in Workers : pc[w] = "done"

\* C27: when the two participants of a PENDING match send their accepting
\* respond_to_match requests concurrently, each handler reading the match before the
\* other commits, then once both requests are answered the match is ACCEPTED and
\* exactly one Connection exists for it; it does not stay PENDING with both accepted
\* flags true.
C27_ConcurrentAcceptsConnect ==
    \A w1, w2 \in Workers, m \in MatchIds :
        (WorkersDone /\ BothAccepting(w1, w2, m)) =>
            /\ match_table[m].status = ACCEPTED
            /\ Cardinality(ConnectionsOf(connection_table, m)) = 1
            /\ ~(match_table[m].status = PENDING /\ BothAccepted(match_table[m]))

\* the check-in records of the user at the event that have no check_out_time
ActiveCheckIns(user_id, event_pk) ==
    {i \in 1..Len(checkin_table) :
        /\ checkin_table[i].user_id = user_id
        /\ checkin_table[i].event_id = event_pk
        /\ checkin_table[i].check_out_time = NoneValue}

\* C23: after any sequence of check_in and check_out requests, including requests
\* that interleave, each (user, event) pair has at most one check-in record with no
\* check_out_time.
C23_OneActiveCheckIn ==
    \A u \in 1..Len(user_table), e \in 1..Len(event_table) :
        Cardinality(ActiveCheckIns(u, e)) <= 1

\* the keys of the five dimensions
DimensionKeys == {DIMENSIONS[i] : i \in 1..Len(DIMENSIONS)}

\* C29: in any sequence of start, message, complete and delete calls on a chat
\* session, current_dimension_index stays within 0..4 and send_chat_message never
\* indexes past the last dimension; complete_chat_session creates a profile only when a
\* response is recorded for each of the 5 dimensions, and with fewer it returns 400,
\* creates no user or profile and keeps the session.
C29_ChatWithinDimensions ==
    [][/\ \A s \in DOMAIN session_store' :
             session_store'[s].current_dimension_index \in 0..4
       /\ call'.op = "send_chat_message" => result'.status_code # 500
       /\ call'.op = "complete_chat_session" =>
             /\ (profile_table' # profile_table \/ user_table' # user_table) =>
                    /\ call'.session_id \in DOMAIN session_store
                    /\ DOMAIN session_store[call'.session_id].responses = DimensionKeys
                    /\ Len(profile_table') = Len(profile_table) + 1
                    /\ result'.status_code = 200
             /\ (/\ call'.session_id \in DOMAIN session_store
                 /\ session_store[call'.session_id].wallet_address = call'.wallet_address
                 /\ DOMAIN session_store[call'.session_id].responses # DimensionKeys) =>
                    /\ result'.status_code = 400
                    /\ user_table' = user_table /\ profile_table' = profile_table
                    /\ session_store' = session_store]_vars

\* one session holds all five answers and stays at the last dimension; completing
\* another session that has four answers has been refused and nothing was created
C29_Witness ==
    /\ call.op = "complete_chat_session" /\ result.status_code = 400
    /\ call.session_id \in DOMAIN session_store
    /\ Cardinality(DOMAIN session_store[call.session_id].responses) = 4
    /\ user_table = <<>> /\ profile_table = <<>>
    /\ \E s \in DOMAIN session_store :
          /\ DOMAIN session_store[s].responses = DimensionKeys
          /\ session_store[s].current_dimension_index = 4

\* worker w starts to serve an onboarding request (create_profile, or
\* complete_chat_session on a session of the wallet) in this step
OnboardingArrives(w) ==
    /\ pc[w] = "idle"
    /\ call'[w] # call[w] \/ result'[w] # result[w] \/ pc'[w] # "idle"
    /\ \/ call'[w].op = "create_profile"
       \/ /\ call'[w].op = "complete_chat_session"
          /\ call'[w].session_id \in DOMAIN session_store
          /\ session_store[call'[w].session_id].wallet_address = call'[w].wallet_address

\* the users table holds a user with this wallet address who has a profile
WalletHasProfile(wallet_address) ==
    \E i \in 1..Len(user_table) :
        /\ user_table[i].wallet_address = wallet_address
        /\ \E j \in 1..Len(profile_table) : profile_table[j].user_id = user_table[i].id

\* C30: after any sequence of create_profile, complete_chat_session and wallet_login
\* calls, including onboarding requests for the same wallet that interleave, each
\* wallet address has at most one user and each user has at most one profile; an
\* onboarding request for a wallet that already has a profile returns 400 and leaves
\* the stored profiles unchanged (the handlers raise this 400 in the step in which the
\* request arrives, or not at all).
C30_OneProfilePerWallet ==
    [][/\ \A i, j \in 1..Len(user_table') :
             user_table'[i].wallet_address = user_table'[j].wallet_address => i = j
       /\ \A i, j \in 1..Len(profile_table') :
             profile_table'[i].user_id = profile_table'[j].user_id => i = j
       /\ \A w \in Workers :
             (OnboardingArrives(w) /\ WalletHasProfile(call'[w].wallet_address)) =>
                 /\ result'[w] # NoResult /\ result'[w].status_code = 400
                 /\ profile_table' = profile_table]_vars

\* a Connection between the two users is stored
HaveConnection(user_id, other_id) ==
    \E i \in 1..Len(connection_table) :
        {connection_table[i].user_a_id, connection_table[i].user_b_id} = {user_id, other_id}

\* C21: social profiles of a user whose visibility is connection_only are disclosed
\* only to a requester who has a Connection with that user: get_social_profiles
\* returns an empty set to unauthenticated requesters and to requesters without a
\* Connection, and returns public profiles to anyone; get_follow_all_links returns
\* profiles only when the requester is part of the match, the match is ACCEPTED and a
\* Connection exists for it.
C21_SocialsBehindConnection ==
    /\ (call.op = "get_social_profiles" /\ result.status_code = 200) =>
          LET owner == UserByWallet(call.wallet_address)[1]
              shown == result.social_profiles = profile_table[owner].social_profiles
              hidden == result.social_profiles = <<>>
          IN  IF profile_table[owner].social_visibility = "public"
              THEN shown
              ELSE /\ shown \/ hidden
                   /\ shown <=> /\ call.current_user # NoneValue
                                /\ HaveConnection(owner, call.current_user[1])
    /\ (call.op = "get_follow_all_links" /\ result.status_code = 200) =>
          LET match == match_table[call.match_id]
              requester == UserByWallet(call.requester_wallet)[1]
          IN  /\ IsParticipant(match, requester)
              /\ result.social_profiles # <<>> =>
                    /\ match.status = ACCEPTED
                    /\ ConnectionsOf(connection_table, call.match_id) # {}
                    /\ HaveConnection(match.user_a_id, match.user_b_id)
                    /\ \E other \in {match.user_a_id, match.user_b_id} \ {requester} :
                          result.social_profiles = profile_table[other].social_profiles

\* a requester who is connected to the owner has been shown connection_only profiles
\* that a user in no match cannot see
C21_Witness ==
    /\ call.op = "get_social_profiles" /\ result.status_code = 200
    /\ result.visibility = "connection_only" /\ result.unlocked = Some(TRUE)
    /\ result.social_profiles # <<>>
    /\ call.current_user # NoneValue
    /\ get_social_profiles(profile_table, connection_table, call.wallet_address,
                           Some(MaxMatches + 2)).social_profiles = <<>>

\* -------------------------------- properties of find_matches_for_event

\* find_matches_for_event has returned (or raised)
RankDone == pc = "done" /\ call.op = "find_matches_for_event"

\* find_matches_for_event has returned a list
RankReturned == RankDone /\ result.raised = None

\* the score of the candidate at position i of other_users, as the caller would compute
\* it from the specified proximity default
CandidateScore(i) ==
    LET other_user == call.other_users[i]
        minutes ==
            IF call.proximity_data # NoneValue /\ other_user["id"] \in DOMAIN call.proximity_data[1]
            THEN call.proximity_data[1][other_user["id"]] ELSE 0
    IN  calculate_compatibility(call.user_profile, other_user, minutes).compatibility_score

\* the ids of the users in the returned list
ReturnedIds == {result.matches[k].user_id : k \in 1..Len(result.matches)}

\* C3: the list returned by find_matches_for_event is sorted by compatibility_score in
\* non-increasing order, and no candidate left out of it has a strictly higher score
\* than a candidate in it.
C3_RankingOrder ==
    RankReturned =>
        /\ \A k \in 1..(Len(result.matches) - 1) :
              result.matches[k].compatibility_score
                  >= result.matches[k + 1].compatibility_score
        /\ \A i \in 1..Len(call.other_users) :
              call.other_users[i]["id"] \notin ReturnedIds =>
                  \A k \in 1..Len(result.matches) :
                      CandidateScore(i) <= result.matches[k].compatibility_score

\* three candidates given in ascending score order, truncated to the best two
C3_Witness ==
    /\ RankReturned
    /\ Len(call.other_users) = 3 /\ call.top_n = 2 /\ Len(result.matches) = 2
    /\ CandidateScore(1) < CandidateScore(2) /\ CandidateScore(2) < CandidateScore(3)
    /\ result.matches[1].user_id = call.other_users[3]["id"]
    /\ result.matches[2].user_id = call.other_users[2]["id"]

\* the position in other_users of the user with the given id
InputPosition(user_id) ==
    CHOOSE i \in 1..Len(call.other_users) : call.other_users[i]["id"] = user_id

\* C25: among candidates with equal compatibility_score, find_matches_for_event keeps
\* the order in which they appear in other_users, and the same inputs give the same
\* ranked list.
C25_TiesKeepInputOrder ==
    RankReturned =>
        /\ \A k1, k2 \in 1..Len(result.matches) :
              (k1 < k2 /\ result.matches[k1].compatibility_score
                             = result.matches[k2].compatibility_score)
              => InputPosition(result.matches[k1].user_id)
                     < InputPosition(result.matches[k2].user_id)
        /\ result = find_matches_for_event(call.user_profile, call.other_users,
                                           call.proximity_data, call.top_n)

\* users 3 and 1 hold the same profile and no proximity: given in the order 3, 2, 1 they
\* tie and are returned in the order 3, 1
C25_Witness ==
    /\ RankReturned
    /\ Len(call.other_users) = 3 /\ Len(result.matches) >= 2
    /\ call.other_users[1]["id"] = 3 /\ call.other_users[3]["id"] = 1
    /\ \E k \in 1..(Len(result.matches) - 1) :
          /\ result.matches[k].user_id = 3 /\ result.matches[k + 1].user_id = 1
          /\ result.matches[k].compatibility_score
                = result.matches[k + 1].compatibility_score

\* C4: find_matches_for_event called with top_n zero or negative fails with an
\* invalid-argument error instead of returning a list.
C4_InvalidTopNFailsFast ==
    (RankDone /\ call.top_n <= 0) => result.raised # None

\* C5: for a positive top_n, find_matches_for_event returns exactly
\* min(top_n, number of candidates) records: none for an empty candidate list, one per
\* candidate when top_n is larger than the candidate count.
C5_ResultLength ==
    (RankDone /\ call.top_n > 0) =>
        /\ result.raised = None
        /\ Len(result.matches) = Min(call.top_n, Len(call.other_users))
        /\ call.other_users = <<>> => result.matches = <<>>
        /\ call.top_n >= Len(call.other_users) =>
              /\ ReturnedIds = {call.other_users[i]["id"] : i \in 1..Len(call.other_users)}
              /\ Cardinality(ReturnedIds) = Len(result.matches)

\* top_n larger than a candidate list of two
C5_Witness ==
    /\ RankReturned
    /\ Len(call.other_users) = 2 /\ call.top_n > 2
    /\ Len(result.matches) = 2

\* the record was built from the candidate: identity fields, proximity entry (0 when the
\* map or the entry is absent) and the intersection of the two intention sets
RecordOf(record, other_user) ==
    /\ record.user_id = other_user["id"]
    /\ record.wallet_address = other_user["wallet_address"]
    /\ "username" \in DOMAIN other_user => record.username = other_user["username"]
    /\ record.proximity_overlap_minutes =
          (IF call.proximity_data = NoneValue THEN 0
           ELSE IF other_user["id"] \in DOMAIN call.proximity_data[1]
           THEN call.proximity_data[1][other_user["id"]] ELSE 0)
    /\ record.shared_intentions =
          {t \in ToSet(DictGet(call.user_profile, "intentions", <<>>)) :
              \E j \in 1..Len(DictGet(other_user, "intentions", <<>>)) :
                  other_user["intentions"][j] = t}

\* C15: every record returned by find_matches_for_event corresponds to a distinct input
\* candidate and carries that candidate's identity fields unchanged; its
\* proximity_overlap_minutes is the candidate's entry in the proximity map, or 0 when
\* the map or the entry is absent, and its shared_intentions is the intersection of
\* the requester's and the candidate's intention sets.
C15_RecordFields ==
    RankReturned =>
        \E position \in [1..Len(result.matches) -> 1..Len(call.other_users)] :
            /\ \A k1, k2 \in DOMAIN position : k1 # k2 => position[k1] # position[k2]
            /\ \A k \in DOMAIN position :
                  RecordOf(result.matches[k], call.other_users[position[k]])

\* two records: a user with an entry in the proximity map who shares an intention with
\* the requester, and a user without username and without entry
C15_Witness ==
    /\ RankReturned
    /\ Len(result.matches) = 2
    /\ \E k \in 1..2 :
          /\ result.matches[k].proximity_overlap_minutes > 0
          /\ result.matches[k].shared_intentions # {}
          /\ result.matches[k].username # "Anonymous"
    /\ \E k \in 1..2 :
          /\ result.matches[k].proximity_overlap_minutes = 0
          /\ result.matches[k].username = "Anonymous"
          /\ call.proximity_data # NoneValue

\* --------------------------- properties of calculate_proximity_overlap

\* calculate_proximity_overlap has returned (or raised)
ProximityDone == pc = "done" /\ call.op = "calculate_proximity_overlap"

\* the check-in carries a check_out_time
CheckedOut(checkin) == checkin["check_out_time"] # NoneValue

\* the effective end times: check_out_time, else the clock reading taken for the check-in
EndA == IF CheckedOut(call.checkin_a) THEN call.checkin_a["check_out_time"][1]
        ELSE call.utcnow[1]

EndB == IF CheckedOut(call.checkin_b) THEN call.checkin_b["check_out_time"][1]
        ELSE call.utcnow[2]

LaterStart == Max(call.checkin_a["check_in_time"], call.checkin_b["check_in_time"])

EarlierEnd == Min(EndA, EndB)

\* check_out_time before check_in_time
Malformed(checkin) ==
    CheckedOut(checkin) /\ checkin["check_out_time"][1] < checkin["check_in_time"]

\* C7: calculate_proximity_overlap returns 0 and does not raise whenever the later start
\* is not before the earlier effective end; in particular when one user checks out
\* before the other checks in, and when a check_out_time precedes its check_in_time.
C7_NoTemporalOverlap ==
    ProximityDone =>
        /\ LaterStart >= EarlierEnd => (result.raised = None /\ result.minutes = 0)
        /\ (CheckedOut(call.checkin_a)
              /\ call.checkin_a["check_out_time"][1] < call.checkin_b["check_in_time"])
           => (result.raised = None /\ result.minutes = 0)
        /\ (CheckedOut(call.checkin_b)
              /\ call.checkin_b["check_out_time"][1] < call.checkin_a["check_in_time"])
           => (result.raised = None /\ result.minutes = 0)
        /\ (Malformed(call.checkin_a) \/ Malformed(call.checkin_b))
           => (result.raised = None /\ result.minutes = 0)

\* a check-in that ends 119 seconds before it starts, against one that spans the event
C7_Witness ==
    /\ ProximityDone
    /\ call.checkin_a["check_in_time"] = 119 /\ call.checkin_a["check_out_time"] = Some(0)
    /\ call.checkin_b["check_in_time"] = 0 /\ ~CheckedOut(call.checkin_b)
    /\ result.raised = None /\ result.minutes = 0

\* neither check-in carries a latitude or a longitude
NoCoordinates ==
    \A c \in {call.checkin_a, call.checkin_b} :
        c["latitude"] = NoneValue /\ c["longitude"] = NoneValue

\* C16: calculate_proximity_overlap returns a non-negative integer; a result other than
\* 0 is the length of the intersection of the two presence intervals in minutes,
\* truncated toward zero: 59 seconds give 0, 119 seconds give 1.
C16_TruncatedMinutes ==
    ProximityDone =>
        /\ result.raised = None
        /\ result.minutes \in Nat
        /\ result.minutes # 0 =>
              /\ LaterStart < EarlierEnd
              /\ 60 * result.minutes <= EarlierEnd - LaterStart
              /\ EarlierEnd - LaterStart < 60 * (result.minutes + 1)
        /\ EarlierEnd - LaterStart = 59 => result.minutes = 0
        /\ (EarlierEnd - LaterStart = 119 /\ NoCoordinates) => result.minutes = 1

\* the two presence intervals intersect for 119 seconds, which count as one minute
C16_Witness ==
    /\ ProximityDone
    /\ call.checkin_a["check_in_time"] = 0 /\ call.checkin_a["check_out_time"] = Some(119)
    /\ call.checkin_b["check_in_time"] = 0 /\ ~CheckedOut(call.checkin_b)
    /\ NoCoordinates
    /\ result.raised = None /\ result.minutes = 1

\* both check-ins carry a latitude and a longitude, 0.0 included
BothCarryCoordinates ==
    \A c \in {call.checkin_a, call.checkin_b} :
        c["latitude"] # NoneValue /\ c["longitude"] # NoneValue

\* the distance between the two check-ins' points, in centimetres
PointDistance ==
    HaversineDistance(call.checkin_a["latitude"][1], call.checkin_a["longitude"][1],
                      call.checkin_b["latitude"][1], call.checkin_b["longitude"][1])

\* C8: whenever both check-ins carry a latitude and a longitude (coordinates equal to
\* 0.0 included) and the distance between the points exceeds max_distance_meters,
\* calculate_proximity_overlap returns 0 whatever the temporal overlap is; a distance
\* equal to max_distance_meters does not force 0.
C8_DistanceGate ==
    (ProximityDone /\ BothCarryCoordinates) =>
        /\ PointDistance > call.max_distance_meters =>
              (result.raised = None /\ result.minutes = 0)
        /\ (PointDistance = call.max_distance_meters /\ LaterStart < EarlierEnd) =>
              (result.raised = None /\ result.minutes = (EarlierEnd - LaterStart) \div 60)

====
